---- MODULE Spec2Model ----
(***************************************************************************)
(* State-machine model of the computer-inventory backend: the 1Password    *)
(* credential service (app/services/onepassword.py), the asset reconciler  *)
(* (app/crud.py CRUDAsset.upsert) and the routes that tie the relational   *)
(* store to the vault (app/routers/assets.py, app/routers/mgmt.py).        *)
(*                                                                         *)
(* Representation.                                                         *)
(*   - Credential strings are sequences of characters, so that             *)
(*     str.strip() is computed and not assumed.                            *)
(*   - Python None for an optional map is <<>>, a dict d is <<d>>; a dict  *)
(*     is a function whose DOMAIN is the set of keys it holds.             *)
(*   - Column values that are only compared and copied (hostname, fqdn,    *)
(*     serial number, vendor, location) are atoms; NULL is the atom NONE.  *)
(*   - A URL is the sequence of the parts the f-string concatenates; the   *)
(*     empty URL "" is <<>>.                                               *)
(*   - A service operation is a sequence of HTTP requests; each request is *)
(*     one step, answered by the server with any status or not at all.     *)
(*     The server stores what a request it answers with 2xx asked for.     *)
(*   - A route that calls the vault is two or three steps: up to its first *)
(*     service call, and from the call's return to the response.           *)
(*                                                                         *)
(* Specifications.                                                         *)
(*   SpecBuild   _build_secret_data on drawn arguments                     *)
(*   SpecUpsert  CRUDAsset.upsert called again and again on an empty store *)
(*   SpecSync    create_or_update_asset_secret, sequential, vault empty    *)
(*   SpecSvc     the four service operations under every configuration     *)
(*   Spec        the routes and the migration script                       *)
(*   SpecVault   the credentials and vault-health routes, get_vault_id     *)
(*   SpecRecreate  sequential syncs while items are deleted externally     *)
(*   SpecConc    upserts and updates of several workers interleaved        *)
(*   SpecDelete  the asset delete route next to the upsert route           *)
(*   SpecJson    _make_json_safe on the payloads the routes log            *)
(*   SpecRace    create_or_update_asset_secret calls interleaved           *)
(***************************************************************************)
EXTENDS Integers, Sequences, FiniteSets, Bags, TLC

VARIABLES
    build,      \* one call of _build_secret_data: its arguments and result
    assets,     \* the assets table: a sequence of rows, row i has id i
    last,       \* the last CRUDAsset.upsert call: its payload and what it returned
    cfg,        \* Settings: onepassword_enabled, op_connect_host set, op_api_token set
    vault,      \* the items the 1Password vault holds
    vaultSeq,   \* how many items the vault has created (it never reuses an id)
    svc,        \* the OnePasswordService call in progress and where it stands
    http,       \* the HTTP requests the operation in progress has sent to 1Password Connect
    controllers,\* the management_controllers table: row i has id i
    audit,      \* the audit_logs table
    req,        \* the route handler in progress and where it stands (SpecConc: the
                \* bag of the calls in progress)
    resp        \* what the last finished operation returned to its caller

svcVars == <<cfg, vault, vaultSeq, svc, http>>
dbVars == <<controllers, audit>>
vars == <<build, assets, last, cfg, vault, vaultSeq, svc, http, controllers, audit, req, resp>>

-----------------------------------------------------------------------------
(* Bounds *)

\* longest credential string drawn as an override
MaxLen == 2

\* most asset rows the store is let to grow to
MaxAssets == 2

-----------------------------------------------------------------------------
(* Values *)

NONE == "<null>"

\* Python truthiness of an atom column value (None and "" are falsy)
TruthyAtom(v) == v # NONE /\ v # ""

\* v or ""
OrEmpty(v) == IF TruthyAtom(v) THEN v ELSE ""

Chars == {" ", "u"}
Whitespace == {" "}

\* all strings over Chars of length at most n
StrsUpTo(n) == UNION {[1..k -> Chars] : k \in 0..n}

RECURSIVE LStrip(_)
LStrip(s) == IF s # <<>> /\ Head(s) \in Whitespace THEN LStrip(Tail(s)) ELSE s

RECURSIVE RStrip(_)
RStrip(s) ==
    IF s # <<>> /\ s[Len(s)] \in Whitespace
    THEN RStrip(SubSeq(s, 1, Len(s) - 1))
    ELSE s

\* str.strip()
Strip(s) == RStrip(LStrip(s))

S_root == <<"r", "o", "o", "t">>
S_admin == <<"a", "d", "m", "i", "n">>
S_Administrator == <<"A", "d", "m", "i", "n", "i", "s", "t", "r", "a", "t", "o", "r">>
S_changeme == <<"c", "h", "a", "n", "g", "e", "m", "e">>

\* Optional[Dict]: None, or a dict over a subset of keys with values in vals
NoneCreds == <<>>
Dict(d) == <<d>>
IsNoneCreds(c) == c = <<>>
DictsOver(keys, vals) == UNION {[ks -> vals] : ks \in SUBSET keys}

-----------------------------------------------------------------------------
(* OnePasswordService: the secret builder (pure) *)

NoCtrl == [type |-> NONE]
HasCtrl(c) == c.type # NONE

\* self.mgmt_defaults.get(type, {'username': 'admin', 'password': 'changeme'})
mgmt_defaults(type) ==
    CASE type = "idrac" -> [username |-> S_root, password |-> S_changeme]
      [] type = "ilo" -> [username |-> S_Administrator, password |-> S_changeme]
      [] type = "ipmi" -> [username |-> S_admin, password |-> S_changeme]
      [] type = "redfish" -> [username |-> S_admin, password |-> S_changeme]
      [] OTHER -> [username |-> S_admin, password |-> S_changeme]

\* str(port)
PortStr(p) ==
    CASE p = 80 -> "80"
      [] p = 443 -> "443"
      [] p = 8443 -> "8443"
      [] OTHER -> "port"

\* _build_management_url
_build_management_url(c) ==
    IF ~HasCtrl(c) THEN <<>>
    ELSE IF c.ui_url # NONE /\ c.ui_url # "" THEN <<c.ui_url>>
    ELSE LET protocol == IF c.port = 443 THEN "https" ELSE "http" IN
         IF c.port \in {80, 443}
         THEN <<protocol, "://", c.address>>
         ELSE <<protocol, "://", c.address, ":", PortStr(c.port)>>

\* a plausible slip: the `.strip()` half of the test is left out, so a
\* whitespace-only override replaces the default with the empty string
Resolve_NoBlankTest(creds, key, default) ==
    IF IsNoneCreds(creds) THEN default
    ELSE LET d == creds[1] IN
         IF key \notin DOMAIN d THEN default
         ELSE IF d[key] # <<>> THEN Strip(d[key])
         ELSE default

\* a slip: a key that is present always replaces the default by its trimmed value
Resolve_NoTest(creds, key, default) ==
    IF IsNoneCreds(creds) THEN default
    ELSE LET d == creds[1] IN
         IF key \notin DOMAIN d THEN default ELSE Strip(d[key])

\* the override-resolution rule repeated for every credential field:
\*   value = default
\*   if creds is not None: if key in creds:
\*       if creds[key] and str(creds[key]).strip(): value = str(creds[key]).strip()
Resolve(creds, key, default) ==
    IF IsNoneCreds(creds) THEN default
    ELSE LET d == creds[1] IN
         IF key \notin DOMAIN d THEN default
         ELSE IF d[key] # <<>> /\ Strip(d[key]) # <<>> THEN Strip(d[key])
         ELSE default

\* the management username/password of the payload
MgmtUser(c, mc) ==
    IF HasCtrl(c) THEN Resolve(mc, "username", mgmt_defaults(c.type).username)
    ELSE S_admin

MgmtPass(c, mc) ==
    IF HasCtrl(c) THEN Resolve(mc, "password", mgmt_defaults(c.type).password)
    ELSE S_changeme

\* op_secret_template.format(asset_id=asset.id), default "asset-{asset_id}"
SecretName(asset_id) == <<"asset-", asset_id>>

\* _build_secret_data: the item payload (fields by id, urls, tags)
_build_secret_data(asset, c, mc, oc) ==
    LET mgmt_url == _build_management_url(c) IN
    [ title |-> SecretName(asset.id),
      category |-> "LOGIN",
      asset_name |-> asset.hostname,
      asset_id |-> asset.id,
      asset_fqdn |-> OrEmpty(asset.fqdn),
      asset_location |-> OrEmpty(asset.location),
      mgmt_type |-> IF HasCtrl(c) THEN c.type ELSE "",
      mgmt_address |-> IF HasCtrl(c) THEN c.address ELSE "",
      mgmt_port |-> IF HasCtrl(c) THEN PortStr(c.port) ELSE "",
      mgmt_ui_url |-> mgmt_url,
      mgmt_username |-> MgmtUser(c, mc),
      mgmt_password |-> MgmtPass(c, mc),
      os_username |-> Resolve(oc, "username", S_root),
      os_password |-> Resolve(oc, "password", S_changeme),
      os_ssh_key |-> Resolve(oc, "ssh_key", <<>>),
      urls |-> IF HasCtrl(c) /\ mgmt_url # <<>>
               THEN <<[label |-> "Management Interface", primary |-> TRUE, href |-> mgmt_url]>>
               ELSE <<>>,
      tags |-> <<"computer-inventory", "asset", asset.type>> ]

-----------------------------------------------------------------------------
(* SpecBuild: _build_secret_data applied to inputs drawn from bounded sets *)

BuildAssets ==
    { [id |-> 1, hostname |-> "h1", fqdn |-> f, location |-> l, type |-> "server"] :
        f \in {NONE, "f1"}, l \in {NONE, "L1"} }

CtrlTypes == {"idrac", "ilo", "ipmi", "redfish"}

BuildCtrls ==
    {NoCtrl} \cup
    { [type |-> t, address |-> "10.0.0.1", port |-> pu[1], ui_url |-> pu[2]] :
        t \in CtrlTypes \cup {"unknown"},
        pu \in {<<443, NONE>>, <<80, NONE>>, <<8443, NONE>>, <<8443, "">>, <<443, "ui">>} }

OverrideStrs == StrsUpTo(MaxLen)

MgmtKeys == {"username", "password"}
OsKeys == {"username", "password", "ssh_key"}

\* every override map over the drawn strings
MgmtRich == {NoneCreds} \cup {Dict(d) : d \in DictsOver(MgmtKeys, OverrideStrs)}
OsRich == {NoneCreds} \cup {Dict(d) : d \in DictsOver(OsKeys, OverrideStrs)}

\* a few representative maps for the side that is not being varied
MgmtFew ==
    { NoneCreds,
      Dict([username |-> <<"u">>, password |-> <<"u", "u">>]) }
OsFew ==
    { NoneCreds,
      Dict([username |-> <<"u">>, password |-> <<"u", "u">>, ssh_key |-> <<" ", "u">>]) }

NotBuilt == [title |-> NONE]

\* the integration switched off and nothing in flight: the state of the
\* service, the vault and the routes in the specifications that do not use them
NoSvc == [pc |-> "idle"]
NoReq == [pc |-> "idle"]
NoResp == [kind |-> "none"]

ServiceUnused ==
    /\ cfg = [enabled |-> FALSE, host |-> FALSE, token |-> FALSE]
    /\ vault = {}
    /\ vaultSeq = 0
    /\ svc = NoSvc
    /\ http = <<>>
    /\ controllers = <<>>
    /\ audit = <<>>
    /\ req = NoReq
    /\ resp = NoResp

InitBuild ==
    /\ assets = <<>>
    /\ last = [kind |-> "none"]
    /\ ServiceUnused
    /\ \E a \in BuildAssets, c \in BuildCtrls :
        \E pair \in (MgmtRich \X OsFew) \cup (MgmtFew \X OsRich) :
            build = [asset |-> a, ctrl |-> c, mgmt |-> pair[1], os |-> pair[2],
                     out |-> NotBuilt]

BuildSecret ==
    /\ build.out = NotBuilt
    /\ UNCHANGED <<assets, last, svcVars, dbVars, req, resp>>
    /\ build' = [build EXCEPT !.out =
                    _build_secret_data(build.asset, build.ctrl, build.mgmt, build.os)]

NextBuild == BuildSecret

SpecBuild == InitBuild /\ [][NextBuild]_vars

-----------------------------------------------------------------------------
(* Schemas: the inbound asset payload (AssetCreate) and AssetUpdate *)

\* the applications table (the routes reject ids that are not in it)
Applications == {"a1"}

\* the columns an AssetUpdate carries besides application_ids
UpdateColumns == {"hostname", "fqdn", "serial_number", "vendor", "location", "status"}

\* An AssetCreate instance: every field has a value (the default of an omitted
\* field), and `set` is model_fields_set, the fields the payload carried.
AssetCreate(h, f, sn, v, loc, st, apps, present) ==
    [ hostname |-> h,
      fqdn |-> IF "fqdn" \in present THEN f ELSE NONE,
      serial_number |-> IF "serial_number" \in present THEN sn ELSE NONE,
      vendor |-> IF "vendor" \in present THEN v ELSE NONE,
      location |-> IF "location" \in present THEN loc ELSE NONE,
      status |-> IF "status" \in present THEN st ELSE "active",
      application_ids |-> IF "application_ids" \in present THEN apps ELSE {},
      mgmt_credentials |-> NoneCreds,
      os_credentials |-> NoneCreds,
      set |-> present \cup {"hostname"} ]

\* obj_in.model_dump(): every field with its value, omitted ones with defaults
model_dump(p) ==
    [ hostname |-> p.hostname, fqdn |-> p.fqdn, serial_number |-> p.serial_number,
      vendor |-> p.vendor, location |-> p.location, status |-> p.status,
      application_ids |-> p.application_ids,
      mgmt_credentials |-> p.mgmt_credentials, os_credentials |-> p.os_credentials ]

\* schemas.AssetUpdate(**d): the keys of d that are AssetUpdate fields become
\* its explicitly-set fields; mgmt_credentials/os_credentials are ignored.
\* application_ids is <<>> for None, <<ids>> for a list.
AssetUpdateOf(d, keys) ==
    [ vals |-> [c \in UpdateColumns |-> IF c \in keys THEN d[c] ELSE NONE],
      application_ids |-> IF "application_ids" \in keys THEN <<d.application_ids>> ELSE <<>>,
      set |-> keys \cap (UpdateColumns \cup {"application_ids"}) ]

\* CRUDAsset.upsert: update_data = schemas.AssetUpdate(**obj_in.model_dump())
UpsertUpdateData(p) == AssetUpdateOf(model_dump(p), DOMAIN model_dump(p))

-----------------------------------------------------------------------------
(* CRUDAsset *)

Ids(rows) == DOMAIN rows

\* the rows a query filters; .first() returns any one of them
get_by_fqdn(rows, fqdn) == {i \in Ids(rows) : rows[i].fqdn = fqdn}
get_by_serial_and_vendor(rows, sn, v) ==
    {i \in Ids(rows) : rows[i].serial_number = sn /\ rows[i].vendor = v}
get_by_hostname(rows, h) == {i \in Ids(rows) : rows[i].hostname = h}

\* a slip: the column is declared without unique=True
FqdnConflict_NoIndex(rows, i, row) == FALSE

\* assets.fqdn is UNIQUE (NULLs exempt): would row `row`, stored under id i,
\* collide with another row
FqdnConflict(rows, i, row) ==
    row.fqdn # NONE /\ \E j \in Ids(rows) : j # i /\ rows[j].fqdn = row.fqdn

\* CRUDAsset.create: the row built from the payload without application_ids and
\* credentials, then its applications
NewRow(rows, p) ==
    [ id |-> Len(rows) + 1,
      hostname |-> p.hostname, fqdn |-> p.fqdn, serial_number |-> p.serial_number,
      vendor |-> p.vendor, location |-> p.location, status |-> p.status,
      applications |-> p.application_ids \cap Applications,
      onepassword_secret_id |-> NONE ]

\* CRUDAsset.update: model_dump(exclude_unset=True, exclude={'application_ids'})
\* is setattr'd field by field; applications are replaced when application_ids
\* is not None
UpdatedRow(row, upd) ==
    LET cols == upd.set \cap UpdateColumns
        r1 == [f \in DOMAIN row |-> IF f \in cols THEN upd.vals[f] ELSE row[f]]
    IN IF upd.application_ids # <<>>
       THEN [r1 EXCEPT !.applications = upd.application_ids[1] \cap Applications]
       ELSE r1

\* a plausible slip: existing_asset is never set, every call takes the create branch
Match_Never(rows, p) == [level |-> "none", ids |-> {}]

\* a slip: a payload with an FQDN is matched by FQDN alone
Match_FqdnOnly(rows, p) ==
    IF TruthyAtom(p.fqdn)
    THEN IF get_by_fqdn(rows, p.fqdn) # {}
         THEN [level |-> "fqdn", ids |-> get_by_fqdn(rows, p.fqdn)]
         ELSE [level |-> "none", ids |-> {}]
    ELSE IF /\ TruthyAtom(p.serial_number) /\ TruthyAtom(p.vendor)
            /\ get_by_serial_and_vendor(rows, p.serial_number, p.vendor) # {}
    THEN [level |-> "serial_vendor",
          ids |-> get_by_serial_and_vendor(rows, p.serial_number, p.vendor)]
    ELSE IF get_by_hostname(rows, p.hostname) # {}
    THEN [level |-> "hostname", ids |-> get_by_hostname(rows, p.hostname)]
    ELSE [level |-> "none", ids |-> {}]

\* which natural key the matcher stopped at, and the rows that key selects
\* (priority 1 FQDN, 2 serial+vendor, 3 hostname)
Match(rows, p) ==
    IF TruthyAtom(p.fqdn) /\ get_by_fqdn(rows, p.fqdn) # {}
    THEN [level |-> "fqdn", ids |-> get_by_fqdn(rows, p.fqdn)]
    ELSE IF /\ TruthyAtom(p.serial_number) /\ TruthyAtom(p.vendor)
            /\ get_by_serial_and_vendor(rows, p.serial_number, p.vendor) # {}
    THEN [level |-> "serial_vendor",
          ids |-> get_by_serial_and_vendor(rows, p.serial_number, p.vendor)]
    ELSE IF get_by_hostname(rows, p.hostname) # {}
    THEN [level |-> "hostname", ids |-> get_by_hostname(rows, p.hostname)]
    ELSE [level |-> "none", ids |-> {}]

\* CRUDAsset.upsert: every way the call can end.  `err` is the IntegrityError
\* the commit raises on a duplicate fqdn; the store is then unchanged and the
\* call returns nothing.
upsert(rows, p) ==
    LET m == Match(rows, p) IN
    IF m.ids # {}
    THEN { LET row == UpdatedRow(rows[e], UpsertUpdateData(p)) IN
           IF FqdnConflict(rows, e, row)
           THEN [rows |-> rows, id |-> e, created |-> FALSE, level |-> m.level, err |-> TRUE]
           ELSE [rows |-> [rows EXCEPT ![e] = row], id |-> e, created |-> FALSE,
                 level |-> m.level, err |-> FALSE]
           : e \in m.ids }
    ELSE { LET row == NewRow(rows, p) IN
           IF FqdnConflict(rows, row.id, row)
           THEN [rows |-> rows, id |-> row.id, created |-> FALSE, level |-> "none", err |-> TRUE]
           ELSE [rows |-> Append(rows, row), id |-> row.id, created |-> TRUE,
                 level |-> "none", err |-> FALSE] }

-----------------------------------------------------------------------------
(* SpecUpsert: sequential upserts on a store that starts empty *)

Hostnames == {"h1", "h2"}
Fqdns == {NONE, "", "f1"}
SerialVendors == {<<NONE, NONE>>, <<"S1", NONE>>, <<"S1", "V1">>, <<"S2", "V1">>}

\* the optional field `name` is carried when it has a value
Given(name, v) == IF v = NONE THEN {} ELSE {name}

\* payloads that vary the natural keys and omit everything else
KeyPayloads ==
    { AssetCreate(h, f, sv[1], sv[2], NONE, "active", {},
                  Given("fqdn", f) \cup Given("serial_number", sv[1])
                  \cup Given("vendor", sv[2])) :
        h \in Hostnames, f \in Fqdns, sv \in SerialVendors }

\* payloads that vary which of the other fields are carried
FramePayloads ==
    { AssetCreate("h1", "f1", NONE, NONE, "L1", "retired", apps, present \cup {"fqdn"}) :
        apps \in SUBSET Applications,
        present \in { {}, {"location", "status"}, {"application_ids"},
                      {"location", "status", "application_ids"} } }

UpsertPayloads == KeyPayloads \cup FramePayloads

NoCall == [kind |-> "none"]

InitUpsert ==
    /\ assets = <<>>
    /\ last = NoCall
    /\ build = [out |-> NotBuilt]
    /\ ServiceUnused

\* the payload is the one the call before carried
Repeats(p) == last.kind = "upsert" /\ last.payload = p

\* one CRUDAsset.upsert call; when the payload repeats the one of the call
\* before, `first` keeps what that call returned
Upsert ==
    \E p \in UpsertPayloads : \E r \in upsert(assets, p) :
        /\ r.created => Len(assets) < MaxAssets
        /\ assets' = r.rows
        /\ last' = [ kind |-> "upsert", payload |-> p, id |-> r.id,
                     created |-> r.created, level |-> r.level, err |-> r.err,
                     rows_before |-> Len(assets),
                     again |-> Repeats(p),
                     first |-> IF Repeats(p)
                               THEN [id |-> last.id, created |-> last.created,
                                     rows_before |-> last.rows_before]
                               ELSE [id |-> 0, created |-> FALSE, rows_before |-> 0] ]
        /\ UNCHANGED <<build, svcVars, dbVars, req, resp>>

NextUpsert == Upsert

SpecUpsert == InitUpsert /\ [][NextUpsert]_vars

-----------------------------------------------------------------------------
(* Claims about CRUDAsset.upsert (SpecUpsert) *)

\* the step is an upsert call that found a row and committed its update
UpdatedStep == last'.kind = "upsert" /\ ~last'.created /\ ~last'.err

\* the row the claim's priority order selects: FQDN if present and found, else
\* serial+vendor if both present and found, else hostname
ClaimedMatch(rows, p) ==
    LET byF == IF TruthyAtom(p.fqdn) THEN get_by_fqdn(rows, p.fqdn) ELSE {}
        bySV == IF TruthyAtom(p.serial_number) /\ TruthyAtom(p.vendor)
                THEN get_by_serial_and_vendor(rows, p.serial_number, p.vendor)
                ELSE {}
    IN IF byF # {} THEN byF
       ELSE IF bySV # {} THEN bySV
       ELSE get_by_hostname(rows, p.hostname)

\* C5: whenever some priority level matches, the call updates a row of the
\* highest matching level (FQDN, then serial+vendor, then hostname), returns
\* created=false and leaves the number of rows unchanged.
C5_PriorityMatchUpdates ==
    [][ (last'.kind = "upsert" /\ ClaimedMatch(assets, last'.payload) # {}) =>
            /\ ~last'.err
            /\ ~last'.created
            /\ last'.id \in ClaimedMatch(assets, last'.payload)
            /\ Len(assets') = Len(assets)
            /\ \A c \in UpdateColumns \cap last'.payload.set :
                  assets'[last'.id][c] = last'.payload[c] ]_vars

\* C6: an upsert repeated with the identical payload carrying an FQDN, whose
\* first call found no match and created a row, returns created=false and the
\* same id the second time, and the store has one row more than before the
\* first call.
C6_UpsertIdempotent ==
    (/\ last.kind = "upsert" /\ last.again
     /\ TruthyAtom(last.payload.fqdn) /\ last.first.created)
    => /\ ~last.err
       /\ ~last.created
       /\ last.id = last.first.id
       /\ Len(assets) = last.first.rows_before + 1

C6_Witness ==
    /\ last.kind = "upsert" /\ last.again
    /\ TruthyAtom(last.payload.fqdn) /\ last.first.created
    /\ ~last.created /\ last.level = "fqdn"
    /\ Len(assets) = 2

\* C7: when upsert updates a matched row, every column the payload omits keeps
\* the value the row had before the call.
C7_OmittedFieldsKept ==
    [][ UpdatedStep =>
            \A c \in UpdateColumns \ last'.payload.set :
                assets'[last'.id][c] = assets[last'.id][c] ]_vars

\* C8: when upsert updates a matched row, a payload that omits application_ids
\* leaves the row's applications unchanged, and a payload that carries it
\* replaces them by exactly that list.
C8_TriStateApplicationIds ==
    [][ UpdatedStep =>
            IF "application_ids" \in last'.payload.set
            THEN assets'[last'.id].applications = last'.payload.application_ids
            ELSE assets'[last'.id].applications = assets[last'.id].applications ]_vars

-----------------------------------------------------------------------------
(* OnePasswordService: the operations that talk to 1Password Connect *)

\* the HTTP status codes the Connect server is let to answer with
Statuses == {"200", "201", "204", "401", "404"}

\* no answer at all: timeout, refused connection, malformed URL
NoAnswer == "exception"

\* the server did what the request asked
Is2xx(a) == a \in {"200", "201", "204"}

\* What one request can end in.  Without op_connect_host the URL is
\* "None/v1/..." and httpx raises before anything is sent; without
\* op_api_token the header is "Bearer None", which the server rejects.
Answers ==
    IF ~cfg.host THEN {NoAnswer}
    ELSE IF ~cfg.token THEN {"401", NoAnswer}
    ELSE Statuses \cup {NoAnswer}

\* the request leaves the process only when there is a host to send it to
Sent(request) == IF cfg.host THEN Append(http, request) ELSE http

\* the id the vault gives its n-th item
ItemId(n) == ToString(n)

ItemIdsOf(items) == {it.id : it \in items}
ItemsTitled(items, title) == {it \in items : it.data.title = title}

\* the Asset object handed to the service
AssetArg(row) ==
    [ id |-> row.id, hostname |-> row.hostname, fqdn |-> row.fqdn,
      location |-> row.location, type |-> "server" ]

\* how a service call ends: a returned value, or OnePasswordError raised
Returned(v) == [ok |-> TRUE, val |-> v]
Raised == [ok |-> FALSE, val |-> "OnePasswordError"]

\* ... or an httpx exception (ConnectError, TimeoutException,
\* UnsupportedProtocol) leaving the call as it was raised
RaisedTransport == [ok |-> FALSE, val |-> "httpx.RequestError"]

\* response.status_code of the request the call has just made
Answered(call, a) == [call EXCEPT !.status = a]

\* a call that has ended
Ended(call, ret) == [call EXCEPT !.pc = "ret", !.ret = ret]

\* a slip: delete_asset_secret without its `if not self.enabled` guard
Enter_Unguarded(call) ==
    CASE call.op = "sync" ->
            IF ~cfg.enabled THEN Ended(call, Returned("")) ELSE [call EXCEPT !.pc = "vaults"]
      [] call.op = "get" ->
            IF ~cfg.enabled THEN Ended(call, Raised) ELSE [call EXCEPT !.pc = "vaults"]
      [] call.op = "delete" -> [call EXCEPT !.pc = "vaults"]
      [] call.op = "test" ->
            IF ~cfg.enabled THEN Ended(call, Returned(TRUE))
            ELSE IF ~cfg.host \/ ~cfg.token THEN Ended(call, Raised)
            ELSE [call EXCEPT !.pc = "health"]
      [] call.op = "vault_id" -> [call EXCEPT !.pc = "vaults"]

\* a slip: test_connectivity without its `if not self.connect_host or not
\* self.api_token` guard
Enter_NoConfigCheck(call) ==
    CASE call.op = "sync" ->
            IF ~cfg.enabled THEN Ended(call, Returned("")) ELSE [call EXCEPT !.pc = "vaults"]
      [] call.op = "get" ->
            IF ~cfg.enabled THEN Ended(call, Raised) ELSE [call EXCEPT !.pc = "vaults"]
      [] call.op = "delete" ->
            IF ~cfg.enabled THEN Ended(call, Returned(TRUE)) ELSE [call EXCEPT !.pc = "vaults"]
      [] call.op = "test" ->
            IF ~cfg.enabled THEN Ended(call, Returned(TRUE)) ELSE [call EXCEPT !.pc = "health"]
      [] call.op = "vault_id" -> [call EXCEPT !.pc = "vaults"]

\* The first thing each operation does: the `if not self.enabled` guard, and
\* for test_connectivity the host/token guard.  get_vault_id called on its own
\* has neither.
Enter(call) ==
    CASE call.op = "sync" ->
            IF ~cfg.enabled THEN Ended(call, Returned("")) ELSE [call EXCEPT !.pc = "vaults"]
      [] call.op = "get" ->
            IF ~cfg.enabled THEN Ended(call, Raised) ELSE [call EXCEPT !.pc = "vaults"]
      [] call.op = "delete" ->
            IF ~cfg.enabled THEN Ended(call, Returned(TRUE)) ELSE [call EXCEPT !.pc = "vaults"]
      [] call.op = "test" ->
            IF ~cfg.enabled THEN Ended(call, Returned(TRUE))
            ELSE IF ~cfg.host \/ ~cfg.token THEN Ended(call, Raised)
            ELSE [call EXCEPT !.pc = "health"]
      [] call.op = "vault_id" -> [call EXCEPT !.pc = "vaults"]

\* a call of create_or_update_asset_secret(asset, mgmt_controller,
\* mgmt_credentials, os_credentials) by `caller`
SyncCall(caller, row, c, mc, oc) ==
    [ pc |-> "enter", op |-> "sync", caller |-> caller,
      asset |-> AssetArg(row), ctrl |-> c, mc |-> mc, oc |-> oc,
      sid |-> NONE, existing |-> NONE, status |-> NONE, ret |-> Raised ]

\* a call of get_asset_secret / delete_asset_secret(secret_id), test_connectivity()
IdCall(op, caller, sid) ==
    [ pc |-> "enter", op |-> op, caller |-> caller,
      asset |-> [id |-> 0], ctrl |-> NoCtrl, mc |-> NoneCreds, oc |-> NoneCreds,
      sid |-> sid, existing |-> NONE, status |-> NONE, ret |-> Raised ]

\* How a failed get_vault_id ends.  The method has no try/except of its own:
\* a status other than 200 and a vault name that is not listed raise
\* OnePasswordError, an httpx exception passes through.  Inside
\* create_or_update_asset_secret / get_asset_secret / delete_asset_secret the
\* call sits in their `except Exception`, which re-raises OnePasswordError.
VaultIdFailure(call, a) ==
    IF a = NoAnswer /\ call.op = "vault_id" THEN RaisedTransport ELSE Raised

\* get_vault_id: GET /v1/vaults, then the vault is looked up by name
GetVaultId ==
    /\ svc.pc = "vaults"
    /\ \E a \in Answers, listed \in BOOLEAN :
        /\ http' = Sent("GET /v1/vaults")
        /\ svc' = IF a = "200" /\ listed
                  THEN CASE svc.op = "sync" -> [Answered(svc, a) EXCEPT !.pc = "find"]
                         [] svc.op = "get" -> [Answered(svc, a) EXCEPT !.pc = "item"]
                         [] svc.op = "delete" -> [Answered(svc, a) EXCEPT !.pc = "delete"]
                         [] svc.op = "vault_id" -> Ended(Answered(svc, a), Returned("vault-1"))
                  ELSE Ended(Answered(svc, a), VaultIdFailure(svc, a))
    /\ UNCHANGED <<build, assets, last, cfg, vault, vaultSeq, dbVars, req, resp>>

\* a slip: the search result is dropped, every call takes the create branch
FirstItem_None(items) == {NONE}

\* items[0] if items else None: the ids the expression can yield (the order of
\* the server's list is not specified)
FirstItem(items) == IF items = {} THEN {NONE} ELSE ItemIdsOf(items)

\* a slip: a search that finds nothing is treated as a failure of the call
AfterFind_MissRaises(call, e) ==
    IF e = NONE THEN Ended(call, Raised) ELSE [call EXCEPT !.pc = "write", !.existing = e]

\* existing_secret = await self._find_secret_by_title(...): found or None, the
\* call goes on to its write
AfterFind(call, e) == [call EXCEPT !.pc = "write", !.existing = e]

\* _find_secret_by_title: GET items?filter=title eq "...", items[0] if items
FindSecretByTitle ==
    /\ svc.pc = "find"
    /\ \E a \in Answers :
        /\ http' = Sent("GET /v1/vaults/{v}/items")
        /\ IF a # "200" THEN svc' = Ended(Answered(svc, a), Raised)
           ELSE \E e \in FirstItem(ItemsTitled(vault, SecretName(svc.asset.id))) :
                    svc' = AfterFind(Answered(svc, a), e)
    /\ UNCHANGED <<build, assets, last, cfg, vault, vaultSeq, dbVars, req, resp>>


\* most items the vault is let to create
MaxItems == 2

\* a slip: every 2xx answer taken for a stored item
WriteSucceeded_Any2xx(a) == Is2xx(a)

\* if response.status_code in [200, 201], of the PUT and of the POST
WriteSucceeded(a) == a \in {"200", "201"}

\* the payload the call sends: _build_secret_data(...) for its arguments
Payload(call) == _build_secret_data(call.asset, call.ctrl, call.mc, call.oc)

\* create_or_update_asset_secret, the write: PUT items/{id} when the search
\* found an item (success on 200/201 returns that id), POST items otherwise
\* (success on 200/201 returns the new id).  The server stores what a request
\* it answers with 2xx asked for.
WriteSecret ==
    /\ svc.pc = "write"
    /\ \E a \in Answers :
        IF svc.existing # NONE
        THEN /\ http' = Sent("PUT /v1/vaults/{v}/items/{id}")
             /\ Is2xx(a) => svc.existing \in ItemIdsOf(vault)
             /\ vault' = IF Is2xx(a)
                         THEN {IF it.id = svc.existing
                               THEN [it EXCEPT !.data = Payload(svc)] ELSE it : it \in vault}
                         ELSE vault
             /\ vaultSeq' = vaultSeq
             /\ svc' = IF WriteSucceeded(a)
                       THEN Ended(Answered(svc, a), Returned(svc.existing))
                       ELSE Ended(Answered(svc, a), Raised)
        ELSE /\ http' = Sent("POST /v1/vaults/{v}/items")
             /\ Is2xx(a) => vaultSeq < MaxItems
             /\ vault' = IF Is2xx(a)
                         THEN vault \cup {[id |-> ItemId(vaultSeq + 1), data |-> Payload(svc)]}
                         ELSE vault
             /\ vaultSeq' = IF Is2xx(a) THEN vaultSeq + 1 ELSE vaultSeq
             /\ svc' = IF WriteSucceeded(a)
                       THEN Ended(Answered(svc, a), Returned(ItemId(vaultSeq + 1)))
                       ELSE Ended(Answered(svc, a), Raised)
    /\ UNCHANGED <<build, assets, last, cfg, dbVars, req, resp>>

\* get_asset_secret: GET items/{secret_id}, the item on 200
GetItem ==
    /\ svc.pc = "item"
    /\ \E a \in Answers :
        /\ http' = Sent("GET /v1/vaults/{v}/items/{id}")
        /\ Is2xx(a) => svc.sid \in ItemIdsOf(vault)
        /\ IF a = "200"
           THEN \E it \in vault : it.id = svc.sid
                                    /\ svc' = Ended(Answered(svc, a), Returned(it.data))
           ELSE svc' = Ended(Answered(svc, a), Raised)
    /\ UNCHANGED <<build, assets, last, cfg, vault, vaultSeq, dbVars, req, resp>>

\* delete_asset_secret: DELETE items/{secret_id}, True on 204
DeleteItem ==
    /\ svc.pc = "delete"
    /\ \E a \in Answers :
        /\ http' = Sent("DELETE /v1/vaults/{v}/items/{id}")
        /\ Is2xx(a) => svc.sid \in ItemIdsOf(vault)
        /\ vault' = IF Is2xx(a) THEN {it \in vault : it.id # svc.sid} ELSE vault
        /\ svc' = IF a = "204" THEN Ended(Answered(svc, a), Returned(TRUE))
                  ELSE Ended(Answered(svc, a), Raised)
    /\ UNCHANGED <<build, assets, last, cfg, vaultSeq, dbVars, req, resp>>

\* test_connectivity: GET /health, True on 200 (the server's health endpoint
\* answers whatever the Authorization header holds)
GetHealth ==
    /\ svc.pc = "health"
    /\ \E a \in (IF cfg.host THEN Statuses \cup {NoAnswer} ELSE {NoAnswer}) :
        /\ http' = Sent("GET /health")
        /\ svc' = IF a = "200" THEN Ended(Answered(svc, a), Returned(TRUE))
                  ELSE Ended(Answered(svc, a), Raised)
    /\ UNCHANGED <<build, assets, last, cfg, vault, vaultSeq, dbVars, req, resp>>


-----------------------------------------------------------------------------
(* The database the service-level specifications start from *)

\* SELECT ... FROM management_controllers WHERE asset_id = :id, .first():
\* any one of the asset's controllers, None when it has none
FirstController(rows, asset_id) ==
    LET mine == {i \in DOMAIN rows : rows[i].alive /\ rows[i].asset_id = asset_id}
    IN IF mine = {} THEN {NoCtrl} ELSE {rows[i] : i \in mine}

SampleAssets ==
    << [ id |-> 1, hostname |-> "h1", fqdn |-> "f1", serial_number |-> "S1",
         vendor |-> "V1", location |-> "L1", status |-> "active",
         applications |-> {}, onepassword_secret_id |-> NONE ],
       [ id |-> 2, hostname |-> "h2", fqdn |-> NONE, serial_number |-> NONE,
         vendor |-> NONE, location |-> NONE, status |-> "active",
         applications |-> {}, onepassword_secret_id |-> NONE ] >>

SampleControllers ==
    << [ id |-> 1, asset_id |-> 1, alive |-> TRUE, type |-> "idrac",
         address |-> "10.0.0.1", port |-> 443, ui_url |-> NONE,
         credential_onepassword_ref |-> NONE ] >>

\* every setting of onepassword_enabled / op_connect_host / op_api_token
Configs == [enabled : BOOLEAN, host : BOOLEAN, token : BOOLEAN]
Configured == [enabled |-> TRUE, host |-> TRUE, token |-> TRUE]

-----------------------------------------------------------------------------
(* The scripts: the service called directly, one call after the other      *)
(* (scripts/test_onepassword.py, scripts/debug_1password.py,               *)
(* debug_credentials.py)                                                   *)

Quiet == svc.pc = "idle" /\ req.pc = "idle"

\* secret_id = await op_service.create_or_update_asset_secret(asset, ctrl, mgmt, os)
ScriptSync ==
    /\ Quiet
    /\ \E i \in Ids(assets), mc \in MgmtFew, oc \in OsFew :
        \E c \in FirstController(controllers, i) :
            svc' = Enter(SyncCall("script", assets[i], c, mc, oc))
    /\ http' = <<>>
    /\ UNCHANGED <<build, assets, last, cfg, vault, vaultSeq, dbVars, req, resp>>

\* the secret ids a script holds: ones the vault has handed out
KnownSecretIds == {ItemId(n) : n \in 1..vaultSeq}

\* secret_data = await op_service.get_asset_secret(secret_id)
ScriptGet ==
    /\ Quiet
    /\ \E sid \in KnownSecretIds : svc' = Enter(IdCall("get", "script", sid))
    /\ http' = <<>>
    /\ UNCHANGED <<build, assets, last, cfg, vault, vaultSeq, dbVars, req, resp>>

\* deleted = await op_service.delete_asset_secret(secret_id)
ScriptDelete ==
    /\ Quiet
    /\ \E sid \in KnownSecretIds : svc' = Enter(IdCall("delete", "script", sid))
    /\ http' = <<>>
    /\ UNCHANGED <<build, assets, last, cfg, vault, vaultSeq, dbVars, req, resp>>

\* await op_service.test_connectivity()
ScriptTest ==
    /\ Quiet
    /\ svc' = Enter(IdCall("test", "script", NONE))
    /\ http' = <<>>
    /\ UNCHANGED <<build, assets, last, cfg, vault, vaultSeq, dbVars, req, resp>>

\* the call returns (or raises) to the script
ScriptReturn ==
    /\ svc.pc = "ret" /\ svc.caller = "script"
    /\ resp' = [ kind |-> "script", op |-> svc.op, ok |-> svc.ret.ok, val |-> svc.ret.val,
                 asset_id |-> svc.asset.id ]
    /\ svc' = NoSvc
    /\ UNCHANGED <<build, assets, last, cfg, vault, vaultSeq, dbVars, req>>
    /\ http' = <<>>

\* SpecSync: create_or_update_asset_secret called again and again, one call at
\* a time, on a configured integration; the vault starts empty and only the
\* service writes to it
InitSync ==
    /\ build = [out |-> NotBuilt]
    /\ last = NoCall
    /\ assets = SampleAssets
    /\ controllers = SampleControllers
    /\ audit = <<>>
    /\ cfg = Configured
    /\ vault = {}
    /\ vaultSeq = 0
    /\ svc = NoSvc
    /\ http = <<>>
    /\ req = NoReq
    /\ resp = NoResp

NextSync == ScriptSync \/ GetVaultId \/ FindSecretByTitle \/ WriteSecret \/ ScriptReturn

SpecSync == InitSync /\ [][NextSync]_vars

\* SpecSvc: the four operations under every configuration; the vault may
\* already hold the item of asset 1
SeededVault ==
    { [ id |-> ItemId(1),
        data |-> _build_secret_data(AssetArg(SampleAssets[1]), SampleControllers[1],
                                    NoneCreds, NoneCreds) ] }

InitSvc ==
    /\ build = [out |-> NotBuilt]
    /\ last = NoCall
    /\ assets = SampleAssets
    /\ controllers = SampleControllers
    /\ audit = <<>>
    /\ cfg \in Configs
    /\ \/ vault = {} /\ vaultSeq = 0
       \/ vault = SeededVault /\ vaultSeq = 1
    /\ svc = NoSvc
    /\ http = <<>>
    /\ req = NoReq
    /\ resp = NoResp

NextSvc ==
    \/ ScriptSync \/ ScriptGet \/ ScriptDelete \/ ScriptTest
    \/ GetVaultId \/ FindSecretByTitle \/ WriteSecret \/ GetItem \/ DeleteItem \/ GetHealth
    \/ ScriptReturn

SpecSvc == InitSvc /\ [][NextSvc]_vars


-----------------------------------------------------------------------------
(* Claims about the credential service (SpecSync, SpecSvc) *)

\* the step is the write of a create_or_update_asset_secret call that
\* returns an id
SyncSucceeds == svc.pc = "write" /\ svc'.pc = "ret" /\ svc'.ret.ok

\* C1: under sequential create_or_update_asset_secret calls, with nothing
\* else deleting items, the vault never holds two items titled for the same
\* asset; a call that succeeds leaves exactly one item titled for its asset
\* and returns that item's id; when the item existed before the call it is
\* updated in place (same id, no item added), otherwise it is created.
C1_SyncIdempotentByTitle ==
    /\ [](\A i \in Ids(assets) : Cardinality(ItemsTitled(vault, SecretName(i))) <= 1)
    /\ [][ SyncSucceeds =>
             LET title == SecretName(svc.asset.id)
                 before == ItemsTitled(vault, title)
                 after == ItemsTitled(vault', title)
             IN /\ ItemIdsOf(after) = {svc'.ret.val}
                /\ \A it \in after : it.data = Payload(svc)
                /\ IF before # {}
                   THEN /\ ItemIdsOf(before) = {svc'.ret.val}
                        /\ ItemIdsOf(vault') = ItemIdsOf(vault)
                   ELSE ItemIdsOf(vault') = ItemIdsOf(vault) \cup {svc'.ret.val} ]_vars

\* a call for an asset returned an id, and the next call for the same asset
\* has updated the item and returns the same id
C1_Witness ==
    /\ resp.kind = "script" /\ resp.op = "sync" /\ resp.ok
    /\ svc.pc = "ret" /\ svc.op = "sync" /\ svc.ret.ok
    /\ svc.asset.id = resp.asset_id
    /\ svc.existing # NONE
    /\ svc.ret.val = resp.val
    /\ Cardinality(ItemsTitled(vault, SecretName(svc.asset.id))) = 1
    /\ \E it \in vault : it.id = resp.val /\ it.data = Payload(svc)

\* what each operation hands back when the integration is disabled
DisabledResult ==
    resp.kind = "script" =>
        CASE resp.op = "sync" -> resp.ok /\ resp.val = ""
          [] resp.op = "delete" -> resp.ok /\ resp.val = TRUE
          [] resp.op = "test" -> resp.ok /\ resp.val = TRUE
          [] OTHER -> TRUE

\* C9: with onepassword_enabled false no request is ever sent to the vault
\* and the vault is never changed; the sync returns the empty string, delete
\* returns true and the connectivity test returns true.
C9_DisabledIsInert ==
    /\ [](~cfg.enabled => http = <<>> /\ svc.pc \in {"idle", "ret"} /\ DisabledResult)
    /\ [][ ~cfg.enabled => vault' = vault ]_vars

\* disabled, a vault that holds an item, and a delete that has returned true
C9_Witness ==
    /\ ~cfg.enabled /\ cfg.host /\ cfg.token
    /\ vault # {}
    /\ resp.kind = "script" /\ resp.op = "delete" /\ resp.ok
    /\ http = <<>>


-----------------------------------------------------------------------------
(* Claims about _build_secret_data (SpecBuild) *)

\* the override map supplies, for `key`, a string that is non-empty after trimming
Supplies(creds, key) ==
    /\ ~IsNoneCreds(creds)
    /\ key \in DOMAIN creds[1]
    /\ Strip(creds[1][key]) # <<>>

\* C10: for every asset, with or without a management controller, every
\* credential field of the built payload whose override is non-empty after
\* trimming equals the trimmed override.
C10_OverrideWins ==
    build.out # NotBuilt =>
        /\ Supplies(build.mgmt, "username") =>
               build.out.mgmt_username = Strip(build.mgmt[1]["username"])
        /\ Supplies(build.mgmt, "password") =>
               build.out.mgmt_password = Strip(build.mgmt[1]["password"])
        /\ Supplies(build.os, "username") =>
               build.out.os_username = Strip(build.os[1]["username"])
        /\ Supplies(build.os, "password") =>
               build.out.os_password = Strip(build.os[1]["password"])
        /\ Supplies(build.os, "ssh_key") =>
               build.out.os_ssh_key = Strip(build.os[1]["ssh_key"])


\* the documented default of the management username, by controller type
DocumentedMgmtUsername(c) ==
    CASE c.type = "idrac" -> S_root
      [] c.type = "ilo" -> S_Administrator
      [] OTHER -> S_admin

C12_ManagementUrl ==
    (build.out # NotBuilt /\ HasCtrl(build.ctrl)) =>
        LET c == build.ctrl
            url == build.out.mgmt_ui_url
        IN /\ (c.ui_url = NONE /\ c.port = 443) => url = <<"https", "://", c.address>>
           /\ (c.ui_url = NONE /\ c.port = 8443) =>
                  url = <<"https", "://", c.address, ":", "8443">>
           /\ (c.ui_url = NONE /\ c.port = 80) => url = <<"http", "://", c.address>>
           /\ TruthyAtom(c.ui_url) => url = <<c.ui_url>>

-----------------------------------------------------------------------------
(* The routes: app/routers/assets.py, app/routers/mgmt.py *)

\* most audit rows, i.e. most mutating requests of one behaviour
MaxAudit == 3

\* most management-controller rows ever created
MaxCtrls == 1

\* a slip: every row is logged as an UPDATE
AuditRow_AlwaysUpdate(action, resource_type, resource_id, keys) ==
    [ action |-> "UPDATE", resource_type |-> resource_type,
      resource_id |-> resource_id, changes |-> keys ]

\* crud.log_asset_change / log_controller_change: the row create_log commits;
\* of `changes` the model keeps the keys
AuditRow(action, resource_type, resource_id, keys) ==
    [ action |-> action, resource_type |-> resource_type,
      resource_id |-> resource_id, changes |-> keys ]

\* a slip: the audit row is built from asset_in.model_dump() as it is
UpsertAuditKeys_Unfiltered ==
    UpdateColumns \cup {"application_ids", "mgmt_credentials", "os_credentials"}

\* asset_in.model_dump(exclude={'mgmt_credentials', 'os_credentials'}).keys()
UpsertAuditKeys == UpdateColumns \cup {"application_ids"}

\* the response of a route that raised HTTPException(status)
HttpError(route, status) ==
    [ kind |-> "http", route |-> route, status |-> status, id |-> 0,
      created |-> FALSE, vault |-> "none" ]

\* a slip: the handlers around the vault calls are missing, the error reaches
\* the route's outer handler
StatusAfterVault_Propagate(ret) == IF ret.ok THEN 200 ELSE 500

\* except OnePasswordError / except Exception around the vault calls: logged,
\* and the route goes on to its response
StatusAfterVault(ret) == 200

\* the response of a route that reached its return statement with the row
\* `id` as its body (the response model is validated from the row as it is
\* then); `ret` is how the route's last vault call ended, NoVaultCall when it
\* made none
NoVaultCall == [ok |-> TRUE, val |-> "not called"]
HttpDone(route, id, created, ret) ==
    [ kind |-> "http", route |-> route, status |-> StatusAfterVault(ret),
      id |-> IF StatusAfterVault(ret) = 200 THEN id ELSE 0,
      created |-> created,
      vault |-> IF ret = NoVaultCall THEN "none" ELSE IF ret.ok THEN "ok" ELSE "failed" ]

\* a slip: the asset is flushed but committed only after the vault sync
Committed_Deferred(rows, r) == rows

\* the assets table once crud.asset_crud.upsert has returned: create/update
\* end in db.commit()
Committed(rows, r) == r.rows

\* the payloads the upsert route is sent: hostname, optionally location, and
\* optionally both credential maps; application_ids may name an unknown id
Custom == Dict([username |-> <<"u">>, password |-> <<"u", "u">>])

RoutePayloads ==
    { [AssetCreate(h, NONE, NONE, NONE, "L1", "active", {}, present)
         EXCEPT !.mgmt_credentials = cr, !.os_credentials = cr] :
        h \in Hostnames, present \in {{}, {"location"}}, cr \in {NoneCreds, Custom} }
    \cup { AssetCreate("h1", NONE, NONE, NONE, NONE, "active", {"ghost"}, {"application_ids"}) }

\* the row holds every field the payload carried
HoldsInbound(row, p) ==
    /\ \A c \in UpdateColumns \cap p.set : row[c] = p[c]
    /\ "application_ids" \in p.set => row.applications = p.application_ids

\* POST /api/v1/assets/upsert, up to the first vault request: validation of
\* application_ids (400), crud.asset_crud.upsert (500 when the commit fails),
\* the audit row, and - with the integration enabled - the controller query
\* and the call of create_or_update_asset_secret
UpsertAsset ==
    /\ Quiet
    /\ Len(audit) < MaxAudit
    /\ \E p \in RoutePayloads :
        IF ~(p.application_ids \subseteq Applications)
        THEN /\ resp' = HttpError("upsert_asset", 400)
             /\ UNCHANGED <<assets, audit, svc, req, http>>
        ELSE \E r \in upsert(assets, p) :
            /\ r.created => Len(assets) < MaxAssets
            /\ IF r.err
               THEN /\ resp' = HttpError("upsert_asset", 500)
                    /\ UNCHANGED <<assets, audit, svc, req, http>>
               ELSE /\ assets' = Committed(assets, r)
                    /\ audit' = Append(audit, AuditRow(IF r.created THEN "CREATE" ELSE "UPDATE",
                                                       "asset", r.id, UpsertAuditKeys))
                    /\ http' = <<>>
                    /\ IF cfg.enabled
                       THEN /\ \E c \in FirstController(controllers, r.id) :
                                svc' = Enter(SyncCall("upsert_asset", r.rows[r.id], c,
                                                      p.mgmt_credentials, p.os_credentials))
                            /\ req' = [ pc |-> "sync", route |-> "upsert_asset", id |-> r.id,
                                        created |-> r.created, payload |-> p ]
                            /\ resp' = resp
                       ELSE /\ resp' = HttpDone("upsert_asset", r.id, r.created,
                                                NoVaultCall)
                            /\ UNCHANGED <<svc, req>>
    /\ UNCHANGED <<build, last, cfg, vault, vaultSeq, controllers>>

\* ... and once the sync has returned or raised: the secret id is logged,
\* an error is logged, and the route returns UpsertResponse(asset, created)
UpsertAssetReturn ==
    /\ req.pc = "sync" /\ req.route = "upsert_asset"
    /\ svc.pc = "ret"
    /\ resp' = HttpDone("upsert_asset", req.id, req.created, svc.ret)
    /\ req' = NoReq
    /\ svc' = NoSvc
    /\ UNCHANGED <<build, assets, last, cfg, vault, vaultSeq, dbVars>>
    /\ http' = <<>>


\* the fields of a controller payload the model carries
ControllerFields == {"type", "address", "port", "ui_url", "credential_onepassword_ref"}

\* ManagementControllerCreate payloads (port defaults to 443)
ControllerCreates ==
    { [ type |-> t, address |-> "10.0.0.1", port |-> 443, ui_url |-> NONE,
        credential_onepassword_ref |-> ref ] :
        t \in {"idrac"}, ref \in {NONE, "op-ref"} }

\* ManagementControllerUpdate payloads: the fields the PATCH body carries
ControllerUpdates ==
    { [port |-> 8443],
      [credential_onepassword_ref |-> "op-ref"],
      [port |-> 8443, credential_onepassword_ref |-> NONE] }

\* crud.management_controller_crud.create: the committed row
NewController(rows, asset_id, cin) ==
    [ id |-> Len(rows) + 1, asset_id |-> asset_id, alive |-> TRUE,
      type |-> cin.type, address |-> cin.address, port |-> cin.port,
      ui_url |-> cin.ui_url,
      credential_onepassword_ref |-> cin.credential_onepassword_ref ]

\* crud.management_controller_crud.update: model_dump(exclude_unset=True) is
\* setattr'd field by field
UpdatedController(row, upd) ==
    [f \in DOMAIN row |-> IF f \in DOMAIN upd THEN upd[f] ELSE row[f]]

\* crud.management_controller_crud.get
Controller(rows, id) == id \in DOMAIN rows /\ rows[id].alive

\* a slip: the management credentials read back are not passed on
ExistingMgmt_Dropped(data) == NoneCreds

\* the credentials add_management_controller reads back from the item's fields
ExistingMgmt(data) == Dict([username |-> data.mgmt_username, password |-> data.mgmt_password])
ExistingOs(data) ==
    Dict([username |-> data.os_username, password |-> data.os_password,
          ssh_key |-> data.os_ssh_key])

\* POST /api/v1/assets/{asset_id}/mgmt up to its first vault request: 404 for
\* an unknown asset, the controller row committed, then - enabled and the
\* asset has a secret id - get_asset_secret; otherwise the audit row and the
\* response
AddController ==
    /\ Quiet
    /\ Len(audit) < MaxAudit
    /\ \E asset_id \in Ids(assets) \cup {0}, cin \in ControllerCreates :
        IF asset_id \notin Ids(assets)
        THEN /\ resp' = HttpError("add_management_controller", 404)
             /\ UNCHANGED <<controllers, audit, svc, req, http>>
        ELSE LET row == NewController(controllers, asset_id, cin) IN
             /\ Len(controllers) < MaxCtrls
             /\ controllers' = Append(controllers, row)
             /\ http' = <<>>
             /\ IF cfg.enabled /\ TruthyAtom(assets[asset_id].onepassword_secret_id)
                THEN /\ svc' = Enter(IdCall("get", "add_management_controller",
                                            assets[asset_id].onepassword_secret_id))
                     /\ req' = [ pc |-> "get", route |-> "add_management_controller",
                                 id |-> row.id, asset_id |-> asset_id, payload |-> cin ]
                     /\ UNCHANGED <<audit, resp>>
                ELSE /\ audit' = Append(audit, AuditRow("CREATE", "management_controller",
                                                        row.id, ControllerFields))
                     /\ resp' = HttpDone("add_management_controller", row.id, TRUE, NoVaultCall)
                     /\ UNCHANGED <<svc, req>>
    /\ UNCHANGED <<build, assets, last, cfg, vault, vaultSeq>>

\* ... get_asset_secret has returned the item: its credential fields are
\* passed back as overrides to create_or_update_asset_secret
AddControllerSync ==
    /\ req.pc = "get" /\ req.route = "add_management_controller"
    /\ svc.pc = "ret" /\ svc.ret.ok
    /\ svc' = Enter(SyncCall("add_management_controller", assets[req.asset_id],
                             controllers[req.id],
                             ExistingMgmt(svc.ret.val), ExistingOs(svc.ret.val)))
    /\ req' = [req EXCEPT !.pc = "sync"]
    /\ UNCHANGED <<build, assets, last, cfg, vault, vaultSeq, http, dbVars, resp>>

\* ... a vault call raised, or the sync returned: the audit row and the response
AddControllerReturn ==
    /\ req.pc \in {"get", "sync"} /\ req.route = "add_management_controller"
    /\ svc.pc = "ret"
    /\ req.pc = "get" => ~svc.ret.ok
    /\ audit' = Append(audit, AuditRow("CREATE", "management_controller", req.id,
                                       ControllerFields))
    /\ resp' = HttpDone("add_management_controller", req.id, TRUE, svc.ret)
    /\ req' = NoReq
    /\ svc' = NoSvc
    /\ UNCHANGED <<build, assets, last, cfg, vault, vaultSeq, controllers>>
    /\ http' = <<>>


\* PATCH /api/v1/assets/mgmt/{controller_id} up to its first vault request:
\* 404 for an unknown controller, the update committed, then - enabled and the
\* updated row has credential_onepassword_ref - the sync with the updated
\* controller and no overrides; otherwise the audit row and the response
UpdateController ==
    /\ Quiet
    /\ Len(audit) < MaxAudit
    /\ \E id \in DOMAIN controllers \cup {0}, upd \in ControllerUpdates :
        IF ~Controller(controllers, id)
        THEN /\ resp' = HttpError("update_management_controller", 404)
             /\ UNCHANGED <<controllers, audit, svc, req, http>>
        ELSE LET row == UpdatedController(controllers[id], upd) IN
             /\ controllers' = [controllers EXCEPT ![id] = row]
             /\ http' = <<>>
             /\ IF cfg.enabled /\ TruthyAtom(row.credential_onepassword_ref)
                THEN /\ svc' = Enter(SyncCall("update_management_controller",
                                              assets[row.asset_id], row, NoneCreds, NoneCreds))
                     /\ req' = [ pc |-> "sync", route |-> "update_management_controller",
                                 id |-> id, asset_id |-> row.asset_id, payload |-> upd ]
                     /\ UNCHANGED <<audit, resp>>
                ELSE /\ audit' = Append(audit, AuditRow("UPDATE", "management_controller",
                                                        id, {"old", "new"}))
                     /\ resp' = HttpDone("update_management_controller", id, FALSE, NoVaultCall)
                     /\ UNCHANGED <<svc, req>>
    /\ UNCHANGED <<build, assets, last, cfg, vault, vaultSeq>>

\* ... the sync returned or raised: the audit row and the response
UpdateControllerReturn ==
    /\ req.pc = "sync" /\ req.route = "update_management_controller"
    /\ svc.pc = "ret"
    /\ audit' = Append(audit, AuditRow("UPDATE", "management_controller", req.id,
                                       {"old", "new"}))
    /\ resp' = HttpDone("update_management_controller", req.id, FALSE, svc.ret)
    /\ req' = NoReq
    /\ svc' = NoSvc
    /\ UNCHANGED <<build, assets, last, cfg, vault, vaultSeq, controllers>>
    /\ http' = <<>>

\* crud.management_controller_crud.delete
DeletedController(rows, id) == [rows EXCEPT ![id].alive = FALSE]

\* DELETE /api/v1/assets/mgmt/{controller_id} up to its first vault request:
\* 404 for an unknown controller, then - enabled and the row has
\* credential_onepassword_ref - the sync without a controller; otherwise the
\* audit row, the delete and the response
DeleteController ==
    /\ Quiet
    /\ Len(audit) < MaxAudit
    /\ \E id \in DOMAIN controllers \cup {0} :
        IF ~Controller(controllers, id)
        THEN /\ resp' = HttpError("delete_management_controller", 404)
             /\ UNCHANGED <<controllers, audit, svc, req, http>>
        ELSE LET row == controllers[id] IN
             /\ http' = <<>>
             /\ IF cfg.enabled /\ TruthyAtom(row.credential_onepassword_ref)
                THEN /\ svc' = Enter(SyncCall("delete_management_controller",
                                              assets[row.asset_id], NoCtrl, NoneCreds, NoneCreds))
                     /\ req' = [ pc |-> "sync", route |-> "delete_management_controller",
                                 id |-> id, asset_id |-> row.asset_id ]
                     /\ UNCHANGED <<controllers, audit, resp>>
                ELSE /\ audit' = Append(audit, AuditRow("DELETE", "management_controller",
                                                        id, {"deleted"}))
                     /\ controllers' = DeletedController(controllers, id)
                     /\ resp' = HttpDone("delete_management_controller", id, FALSE, NoVaultCall)
                     /\ UNCHANGED <<svc, req>>
    /\ UNCHANGED <<build, assets, last, cfg, vault, vaultSeq>>

\* ... the sync returned or raised: the audit row, the delete and the response
DeleteControllerReturn ==
    /\ req.pc = "sync" /\ req.route = "delete_management_controller"
    /\ svc.pc = "ret"
    /\ audit' = Append(audit, AuditRow("DELETE", "management_controller", req.id,
                                       {"deleted"}))
    /\ controllers' = DeletedController(controllers, req.id)
    /\ resp' = HttpDone("delete_management_controller", req.id, FALSE, svc.ret)
    /\ req' = NoReq
    /\ svc' = NoSvc
    /\ UNCHANGED <<build, assets, last, cfg, vault, vaultSeq>>
    /\ http' = <<>>

-----------------------------------------------------------------------------
(* scripts/database_migration.py: fix_assets_missing_1password_secrets *)

\* One turn of the loop over the assets whose onepassword_secret_id is NULL:
\* the sync with the asset's controller and no overrides.  The script runs
\* only with the integration enabled, and its test_connectivity pre-check
\* needs host and token.
MigrateAsset ==
    /\ Quiet
    /\ cfg.enabled /\ cfg.host /\ cfg.token
    /\ \E i \in Ids(assets) :
        /\ assets[i].onepassword_secret_id = NONE
        /\ \E c \in FirstController(controllers, i) :
            svc' = Enter(SyncCall("migration", assets[i], c, NoneCreds, NoneCreds))
    /\ http' = <<>>
    /\ UNCHANGED <<build, assets, last, cfg, vault, vaultSeq, dbVars, req, resp>>

\* ... if secret_id: asset.onepassword_secret_id = secret_id; db.commit()
MigrateAssetReturn ==
    /\ svc.pc = "ret" /\ svc.caller = "migration"
    /\ assets' = IF svc.ret.ok /\ svc.ret.val # ""
                 THEN [assets EXCEPT ![svc.asset.id].onepassword_secret_id = svc.ret.val]
                 ELSE assets
    /\ resp' = [ kind |-> "script", op |-> "migrate", ok |-> svc.ret.ok, val |-> svc.ret.val,
                 asset_id |-> svc.asset.id ]
    /\ svc' = NoSvc
    /\ UNCHANGED <<build, last, cfg, vault, vaultSeq, dbVars, req>>
    /\ http' = <<>>

-----------------------------------------------------------------------------
(* Spec: the routes and the migration script, requests handled one at a     *)
(* time.  The database holds one asset, created by an earlier upsert; it    *)
(* either has no secret yet, or the migration script has created its item   *)
(* and stored the id.                                                       *)

\* the configurations the routes are run under: integration off, and on
RouteConfigs == { [enabled |-> FALSE, host |-> TRUE, token |-> TRUE], Configured }

SeedAudit == << AuditRow("CREATE", "asset", 1, UpsertAuditKeys) >>

SeedVault ==
    { [ id |-> ItemId(1),
        data |-> _build_secret_data(AssetArg(SampleAssets[1]), NoCtrl, NoneCreds, NoneCreds) ] }

Init ==
    /\ build = [out |-> NotBuilt]
    /\ last = NoCall
    /\ controllers = <<>>
    /\ audit = SeedAudit
    /\ cfg \in RouteConfigs
    /\ \/ /\ assets = << SampleAssets[1] >>
          /\ vault = {}
          /\ vaultSeq = 0
       \/ /\ assets = << [SampleAssets[1] EXCEPT !.onepassword_secret_id = ItemId(1)] >>
          /\ vault = SeedVault
          /\ vaultSeq = 1
    /\ svc = NoSvc
    /\ http = <<>>
    /\ req = NoReq
    /\ resp = NoResp

Next ==
    \/ UpsertAsset \/ UpsertAssetReturn
    \/ AddController \/ AddControllerSync \/ AddControllerReturn
    \/ UpdateController \/ UpdateControllerReturn
    \/ DeleteController \/ DeleteControllerReturn
    \/ MigrateAsset \/ MigrateAssetReturn
    \/ GetVaultId \/ FindSecretByTitle \/ WriteSecret \/ GetItem

Spec == Init /\ [][Next]_vars


-----------------------------------------------------------------------------
(* Claims about the routes (Spec) *)

\* the upsert request has committed the asset and is in its vault sync
InUpsertSync == req.pc = "sync" /\ req.route = "upsert_asset"

\* the step ends a request whose last vault call raised
EndsAfterVaultError ==
    /\ req.pc # "idle" /\ req'.pc = "idle"
    /\ svc.pc = "ret" /\ ~svc.ret.ok

\* the relational write of the request in progress is in the database
WriteDone(rows, ctrls) ==
    CASE req.route = "upsert_asset" ->
            req.id \in Ids(rows) /\ HoldsInbound(rows[req.id], req.payload)
      [] req.route = "add_management_controller" ->
            /\ Controller(ctrls, req.id)
            /\ ctrls[req.id].asset_id = req.asset_id
            /\ \A f \in ControllerFields : ctrls[req.id][f] = req.payload[f]
      [] req.route = "update_management_controller" ->
            /\ Controller(ctrls, req.id)
            /\ \A f \in DOMAIN req.payload : ctrls[req.id][f] = req.payload[f]
      [] req.route = "delete_management_controller" ->
            req.id \in DOMAIN ctrls /\ ~Controller(ctrls, req.id)

\* C2: when the vault call of an asset upsert or of a management-controller
\* add, update or delete raises, the request still ends with status 200 and
\* the asset/controller as its body, and its relational write (row created,
\* updated or deleted) is in the database.
C2_DegradeNotFail ==
    [][ EndsAfterVaultError =>
            /\ resp'.kind = "http" /\ resp'.route = req.route
            /\ resp'.status = 200
            /\ resp'.id = req.id
            /\ WriteDone(assets', controllers') ]_vars

\* a controller delete whose vault sync raised: answered 200, the row is gone
C2_Witness ==
    /\ resp.kind = "http" /\ resp.route = "delete_management_controller"
    /\ resp.vault = "failed"
    /\ resp.status = 200
    /\ resp.id \in DOMAIN controllers /\ ~Controller(controllers, resp.id)

\* C3: from the moment the upsert request turns to the vault until it
\* returns, the asset row is in the database with the inbound values, and no
\* step of the request - a failing vault call included - changes the assets
\* table again.
C3_CommitBeforeVault ==
    /\ [](InUpsertSync => req.id \in Ids(assets) /\ HoldsInbound(assets[req.id], req.payload))
    /\ [][ InUpsertSync => assets' = assets ]_vars

\* the sync of an upsert that created a row with a location has failed after
\* sending requests; the row is there
C3_Witness ==
    /\ InUpsertSync /\ req.created
    /\ svc.pc = "ret" /\ ~svc.ret.ok
    /\ http # <<>>
    /\ "location" \in req.payload.set
    /\ assets[req.id].location = "L1" /\ assets[req.id].hostname = req.payload.hostname

\* C4: when the sync of an upsert request returns a non-empty secret id, the
\* asset row carries that id in onepassword_secret_id once the request has
\* returned.
C4_SecretIdWrittenBack ==
    [][ (/\ InUpsertSync /\ req'.pc = "idle"
         /\ svc.pc = "ret" /\ svc.ret.ok /\ svc.ret.val # "")
        => assets'[req.id].onepassword_secret_id = svc.ret.val ]_vars

-----------------------------------------------------------------------------
(* app/routers/credentials.py: the credentials route and the vault-health  *)
(* route; get_vault_id called on its own by the scripts                     *)

\* vault_id = await op_service.get_vault_id()
\* (scripts/test_onepassword.py, scripts/debug_1password.py)
ScriptVaultId ==
    /\ Quiet
    /\ svc' = Enter(IdCall("vault_id", "script", NONE))
    /\ http' = <<>>
    /\ UNCHANGED <<build, assets, last, cfg, vault, vaultSeq, dbVars, req, resp>>

\* the CredentialResponse of create_asset_credentials
CredentialResponse(id, ret) ==
    [ kind |-> "http", route |-> "create_asset_credentials", status |-> 200, id |-> id,
      created |-> FALSE, vault |-> "ok", credential_reference |-> ret.val ]

\* POST /api/v1/assets/{asset_id}/credentials (the handler registered first on
\* the path is the one that serves it), up to the vault call: 501 with the
\* integration off, 404 for an unknown asset, then the controller query and
\* create_or_update_asset_secret with the body's credential maps
CreateAssetCredentials ==
    /\ Quiet
    /\ \E id \in 1..(Len(assets) + 1), cr \in {NoneCreds, Custom} :
        IF ~cfg.enabled
        THEN /\ resp' = HttpError("create_asset_credentials", 501)
             /\ UNCHANGED <<svc, req, http>>
        ELSE IF id \notin Ids(assets)
        THEN /\ resp' = HttpError("create_asset_credentials", 404)
             /\ UNCHANGED <<svc, req, http>>
        ELSE /\ \E c \in FirstController(controllers, id) :
                 svc' = Enter(SyncCall("create_asset_credentials", assets[id], c, cr, cr))
             /\ req' = [pc |-> "sync", route |-> "create_asset_credentials", id |-> id]
             /\ http' = <<>>
             /\ resp' = resp
    /\ UNCHANGED <<build, assets, last, cfg, vault, vaultSeq, dbVars>>

\* ... and once the sync has returned or raised: asset.credential_reference
\* (not a column) is set and the session committed, the response carries the
\* secret id; except OnePasswordError: HTTPException(500)
CreateAssetCredentialsReturn ==
    /\ req.pc = "sync" /\ req.route = "create_asset_credentials"
    /\ svc.pc = "ret"
    /\ resp' = IF svc.ret.ok THEN CredentialResponse(req.id, svc.ret)
               ELSE HttpError("create_asset_credentials", 500)
    /\ req' = NoReq
    /\ svc' = NoSvc
    /\ http' = <<>>
    /\ UNCHANGED <<build, assets, last, cfg, vault, vaultSeq, dbVars>>

\* the OnePasswordHealth body, returned with status 200
OnePasswordHealth(connected, vault_accessible, error) ==
    [ kind |-> "http", route |-> "check_onepassword_health", status |-> 200, id |-> 0,
      created |-> FALSE, vault |-> IF error = NONE THEN "ok" ELSE "failed",
      enabled |-> cfg.enabled, connected |-> connected,
      vault_accessible |-> vault_accessible, error |-> error ]

\* GET /api/v1/health/onepassword: with the integration off the body is
\* returned as initialised (connected False); otherwise test_connectivity()
CheckOnePasswordHealth ==
    /\ Quiet
    /\ IF ~cfg.enabled
       THEN /\ resp' = OnePasswordHealth(FALSE, FALSE, NONE)
            /\ UNCHANGED <<svc, req, http>>
       ELSE /\ svc' = Enter(IdCall("test", "check_onepassword_health", NONE))
            /\ req' = [pc |-> "test", route |-> "check_onepassword_health", id |-> 0]
            /\ http' = <<>>
            /\ resp' = resp
    /\ UNCHANGED <<build, assets, last, cfg, vault, vaultSeq, dbVars>>

\* ... if connected: vault_id = await op_service.get_vault_id();
\* except OnePasswordError: health.error = str(e), and the body is returned
CheckOnePasswordHealthTested ==
    /\ req.pc = "test" /\ req.route = "check_onepassword_health"
    /\ svc.pc = "ret"
    /\ IF svc.ret.ok
       THEN /\ svc' = Enter(IdCall("vault_id", "check_onepassword_health", NONE))
            /\ req' = [req EXCEPT !.pc = "vault_id"]
            /\ UNCHANGED <<resp, http>>
       ELSE /\ resp' = OnePasswordHealth(FALSE, FALSE, svc.ret.val)
            /\ req' = NoReq
            /\ svc' = NoSvc
            /\ http' = <<>>
    /\ UNCHANGED <<build, assets, last, cfg, vault, vaultSeq, dbVars>>

\* ... after get_vault_id: connected and vault_accessible are set; an
\* OnePasswordError is written into the body; any other exception leaves the
\* handler and is answered by the application's handler for Exception (500)
CheckOnePasswordHealthReturn ==
    /\ req.pc = "vault_id" /\ req.route = "check_onepassword_health"
    /\ svc.pc = "ret"
    /\ resp' = IF svc.ret.ok THEN OnePasswordHealth(TRUE, TRUE, NONE)
               ELSE IF svc.ret = Raised THEN OnePasswordHealth(FALSE, FALSE, svc.ret.val)
               ELSE HttpError("check_onepassword_health", 500)
    /\ req' = NoReq
    /\ svc' = NoSvc
    /\ http' = <<>>
    /\ UNCHANGED <<build, assets, last, cfg, vault, vaultSeq, dbVars>>

\* SpecVault: the two routes of credentials.py and the scripts' direct calls,
\* one at a time, under every configuration
InitVault ==
    /\ build = [out |-> NotBuilt]
    /\ last = NoCall
    /\ assets = SampleAssets
    /\ controllers = SampleControllers
    /\ audit = <<>>
    /\ cfg \in Configs
    /\ \/ vault = {} /\ vaultSeq = 0
       \/ vault = SeededVault /\ vaultSeq = 1
    /\ svc = NoSvc
    /\ http = <<>>
    /\ req = NoReq
    /\ resp = NoResp

NextVault ==
    \/ ScriptVaultId \/ ScriptReturn
    \/ CreateAssetCredentials \/ CreateAssetCredentialsReturn
    \/ CheckOnePasswordHealth \/ CheckOnePasswordHealthTested \/ CheckOnePasswordHealthReturn
    \/ GetHealth \/ GetVaultId \/ FindSecretByTitle \/ WriteSecret

SpecVault == InitVault /\ [][NextVault]_vars

-----------------------------------------------------------------------------
(* Claims about error reporting (SpecVault) *)

\* C13: every vault-facing operation of the service, get_vault_id included,
\* ends a failed call - a non-2xx answer or a transport failure - in
\* OnePasswordError; no caller, the credentials and vault-health routes
\* included, sees a raw transport exception.
C13_ErrorsAreOnePasswordError ==
    (svc.pc = "ret" /\ ~svc.ret.ok) => svc.ret = Raised

-----------------------------------------------------------------------------
(* Claims about the management-controller routes (Spec) *)

\* what the vault item shows of the controllers table: for every live row its
\* type, address, port and ui_url
VaultRelevant(rows) ==
    [ i \in DOMAIN rows |->
        IF rows[i].alive
        THEN <<rows[i].type, rows[i].address, rows[i].port, rows[i].ui_url>>
        ELSE <<>> ]

\* C14: with the integration enabled, every add, update or delete of a
\* management controller that changes vault-relevant fields (type, address,
\* port, ui_url) calls the vault sync for the owning asset in the same request,
\* whether or not the asset has a stored secret id or the controller a
\* credential_onepassword_ref: the step that commits the change either starts
\* a service call or follows one.
C14_ControllerChangeResyncs ==
    [][ (cfg.enabled /\ VaultRelevant(controllers') # VaultRelevant(controllers)) =>
            (svc.pc = "ret" \/ svc'.pc # "idle") ]_vars

-----------------------------------------------------------------------------
(* SpecRecreate: create_or_update_asset_secret called again and again while *)
(* items are deleted in the vault by someone else.  Asset 1 starts with its *)
(* item in the vault and the item's id stored in its row.                   *)

\* an item is deleted from the vault outside the application
ExternalDelete ==
    /\ \E it \in vault : vault' = vault \ {it}
    /\ UNCHANGED <<build, assets, last, cfg, vaultSeq, svc, http, dbVars, req, resp>>

InitRecreate ==
    /\ build = [out |-> NotBuilt]
    /\ last = NoCall
    /\ assets = [SampleAssets EXCEPT ![1].onepassword_secret_id = ItemId(1)]
    /\ controllers = SampleControllers
    /\ audit = <<>>
    /\ cfg = Configured
    /\ vault = SeededVault
    /\ vaultSeq = 1
    /\ svc = NoSvc
    /\ http = <<>>
    /\ req = NoReq
    /\ resp = NoResp

NextRecreate == NextSync \/ ExternalDelete

SpecRecreate == InitRecreate /\ [][NextRecreate]_vars

\* the asset's row stores a secret id, and the vault holds neither that item
\* nor any other item with the asset's title
Stale(i) ==
    /\ TruthyAtom(assets[i].onepassword_secret_id)
    /\ assets[i].onepassword_secret_id \notin ItemIdsOf(vault)
    /\ ItemsTitled(vault, SecretName(i)) = {}

\* C15: when an asset's item has been deleted in the vault by someone else
\* (its stored secret id is stale), the next create_or_update_asset_secret for
\* the asset does not fail on that account: its search by title, once
\* answered, finds nothing and the call goes on to create; the create, once
\* accepted, returns the id of a new item - not the stale one - and the vault
\* again holds exactly one item with the asset's title.
C15_RecreatedAfterExternalDelete ==
    /\ []((svc.pc = "find" /\ Stale(svc.asset.id)) =>
            ENABLED (FindSecretByTitle /\ svc'.pc = "write"))
    /\ [][ (svc.pc = "find" /\ Stale(svc.asset.id) /\ svc'.pc = "write") =>
               svc'.existing = NONE ]_vars
    /\ [][ (SyncSucceeds /\ Stale(svc.asset.id)) =>
             LET after == ItemsTitled(vault', SecretName(svc.asset.id))
             IN /\ svc'.ret.val # assets[svc.asset.id].onepassword_secret_id
                /\ svc'.ret.val \notin ItemIdsOf(vault)
                /\ ItemIdsOf(after) = {svc'.ret.val}
                /\ Cardinality(after) = 1 ]_vars

\* asset 1's item was deleted, and a later sync has returned the id of the
\* item it created in its place
C15_Witness ==
    /\ resp.kind = "script" /\ resp.op = "sync" /\ resp.ok /\ resp.asset_id = 1
    /\ assets[1].onepassword_secret_id = ItemId(1)
    /\ ItemId(1) \notin ItemIdsOf(vault)
    /\ resp.val # ItemId(1)
    /\ ItemIdsOf(ItemsTitled(vault, SecretName(1))) = {resp.val}

-----------------------------------------------------------------------------
(* SpecConc: CRUDAsset.upsert and CRUDAsset.update run by several workers   *)
(* at once.  A call reads (the matching queries, or the lookup by id) and   *)
(* later commits; between the two other workers may commit.  In this        *)
(* specification req is the bag of the calls in progress.                   *)

\* most workers handling requests at the same time
MaxWorkers == 2

\* What the session's UPDATE writes: the columns whose new value differs from
\* the value the row had when it was loaded; the other columns keep what the
\* table holds at the commit.
Flushed(current, loaded, target) ==
    [f \in DOMAIN current |-> IF target[f] # loaded[f] THEN target[f] ELSE current[f]]

\* The read of a call.  POST /upsert: the matching queries of
\* CRUDAsset.upsert, ending in the row to update or in none.
\* PATCH /{asset_id}: crud.asset_crud.get, then an update that gives an asset
\* without FQDN the fqdn f1.
BeginTx ==
    /\ BagCardinality(req) < MaxWorkers
    /\ \/ \E hf \in {<<"h1", "f1">>, <<"h2", "f1">>, <<"h2", NONE>>} :
            LET p == AssetCreate(hf[1], hf[2], NONE, NONE, NONE, "active", {},
                                 Given("fqdn", hf[2]))
                m == Match(assets, p)
            IN IF m.ids = {}
               THEN req' = req (+) SetToBag({[pc |-> "insert", payload |-> p]})
               ELSE \E e \in m.ids :
                        req' = req (+) SetToBag({[pc |-> "update", id |-> e,
                                                  loaded |-> assets[e],
                                                  obj_in |-> UpsertUpdateData(p)]})
       \/ \E e \in Ids(assets) :
            /\ assets[e].fqdn = NONE
            /\ req' = req (+) SetToBag({[pc |-> "update", id |-> e, loaded |-> assets[e],
                                        obj_in |-> AssetUpdateOf([fqdn |-> "f1"], {"fqdn"})]})
    /\ UNCHANGED <<build, assets, last, svcVars, dbVars, resp>>

\* The commit of a call: CRUDAsset.create / CRUDAsset.update end in
\* db.commit(), which raises IntegrityError when the row's fqdn is held by
\* another row; the route answers 500 and the table is unchanged.
CommitTx ==
    /\ \E call \in BagToSet(req) :
        LET row == IF call.pc = "insert" THEN NewRow(assets, call.payload)
                   ELSE Flushed(assets[call.id], call.loaded,
                                UpdatedRow(call.loaded, call.obj_in))
            err == FqdnConflict(assets, row.id, row)
        IN /\ (call.pc = "insert" /\ ~err) => Len(assets) < MaxAssets
           /\ assets' = IF err THEN assets
                        ELSE IF call.pc = "insert" THEN Append(assets, row)
                        ELSE [assets EXCEPT ![row.id] = row]
           /\ resp' = [ kind |-> "tx", op |-> call.pc, err |-> err, fqdn |-> row.fqdn,
                        status |-> IF err THEN 500 ELSE 200 ]
           /\ req' = req (-) SetToBag({call})
    /\ UNCHANGED <<build, last, svcVars, dbVars>>

InitConc ==
    /\ build = [out |-> NotBuilt]
    /\ last = NoCall
    /\ assets = <<>>
    /\ cfg = [enabled |-> FALSE, host |-> FALSE, token |-> FALSE]
    /\ vault = {}
    /\ vaultSeq = 0
    /\ svc = NoSvc
    /\ http = <<>>
    /\ controllers = <<>>
    /\ audit = <<>>
    /\ req = EmptyBag
    /\ resp = NoResp

NextConc == BeginTx \/ CommitTx

SpecConc == InitConc /\ [][NextConc]_vars

\* C16: under every interleaving of concurrent upserts and updates no two
\* asset rows ever share a non-null FQDN; an insert whose FQDN another row
\* already holds at the commit - two concurrent upserts both missed on the
\* same new FQDN - is rejected: the request fails and the table is unchanged.
C16_FqdnUniqueUnderConcurrency ==
    /\ [](\A i, j \in Ids(assets) :
            (i # j /\ assets[i].fqdn # NONE) => assets[i].fqdn # assets[j].fqdn)
    /\ [][ \A call \in BagToSet(req) :
             ( /\ call.pc = "insert" /\ req' = req (-) SetToBag({call})
               /\ call.payload.fqdn # NONE
               /\ get_by_fqdn(assets, call.payload.fqdn) # {} ) =>
                 (resp'.err /\ resp'.status = 500 /\ assets' = assets) ]_vars

\* two upserts both missed on f1; the first inserted it, the second one's
\* insert was rejected, and one row holds f1
C16_Witness ==
    /\ resp.kind = "tx" /\ resp.op = "insert" /\ resp.err /\ resp.fqdn = "f1"
    /\ Cardinality(get_by_fqdn(assets, "f1")) = 1

-----------------------------------------------------------------------------
(* Claims about where inbound credentials go (Spec) *)

\* C17: the credential overrides of an inbound asset payload (mgmt_credentials,
\* os_credentials) go to the vault sync only: no asset row has a credential
\* field, and no audit row written for an asset carries one in its changes.
C17_CredentialsOnlyToVault ==
    /\ \A i \in Ids(assets) :
         DOMAIN assets[i] \cap {"mgmt_credentials", "os_credentials"} = {}
    /\ \A k \in DOMAIN audit :
         audit[k].resource_type = "asset" =>
             audit[k].changes \cap {"mgmt_credentials", "os_credentials"} = {}

\* an upsert that carried both credential maps has committed its row and its
\* audit row, and its sync has stored the credentials in the vault item
C17_Witness ==
    /\ req.pc = "sync" /\ req.route = "upsert_asset"
    /\ req.payload.mgmt_credentials = Custom /\ req.payload.os_credentials = Custom
    /\ svc.pc = "ret" /\ svc.ret.ok
    /\ audit[Len(audit)].resource_type = "asset" /\ audit[Len(audit)].resource_id = req.id
    /\ \E it \in vault : it.id = svc.ret.val /\ it.data.os_username = <<"u">>

-----------------------------------------------------------------------------
(* Claims about how routes report vault failures (SpecVault) *)

\* C18: only the vault-health endpoint tells its caller of a vault failure.
\* A route that contacted the vault and whose vault call failed still answers
\* with success; the health endpoint answers with success too and reports the
\* failure in its body (connected false, error set).
C18_OnlyHealthReportsVaultFailure ==
    [][ (svc.pc = "ret" /\ ~svc.ret.ok /\ svc.caller # "script" /\ svc'.pc = "idle") =>
            /\ resp'.status = 200
            /\ svc.caller = "check_onepassword_health" =>
                   (~resp'.connected /\ resp'.error # NONE) ]_vars

-----------------------------------------------------------------------------
(* SpecDelete: DELETE /api/v1/assets/{asset_id} next to the upsert route,   *)
(* integration off                                                          *)

\* DELETE /api/v1/assets/{asset_id}?hard_delete=...: 404 for an unknown
\* asset; with hard_delete the route raises HTTPException(501) before it
\* touches anything; otherwise crud.asset_crud.delete sets status to retired
\* and commits, and the audit row is written.  `resp` keeps the request's
\* asset_id and hard_delete next to the answer.
DeleteAsset ==
    /\ Quiet
    /\ Len(audit) < MaxAudit
    /\ \E id \in Ids(assets) \cup {0}, hard_delete \in BOOLEAN :
        LET status == IF id \notin Ids(assets) THEN 404 ELSE IF hard_delete THEN 501 ELSE 200
        IN /\ resp' = [ kind |-> "http", route |-> "delete_asset", status |-> status,
                        id |-> id, created |-> FALSE, vault |-> "none",
                        hard_delete |-> hard_delete ]
           /\ assets' = IF status = 200 THEN [assets EXCEPT ![id].status = "retired"]
                        ELSE assets
           /\ audit' = IF status = 200
                       THEN Append(audit, AuditRow("DELETE", "asset", id,
                                                   {"status", "hard_delete"}))
                       ELSE audit
    /\ UNCHANGED <<build, last, svcVars, controllers, req>>

InitDelete ==
    /\ build = [out |-> NotBuilt]
    /\ last = NoCall
    /\ assets = SampleAssets
    /\ controllers = SampleControllers
    /\ audit = <<>>
    /\ cfg = [enabled |-> FALSE, host |-> FALSE, token |-> FALSE]
    /\ vault = {}
    /\ vaultSeq = 0
    /\ svc = NoSvc
    /\ http = <<>>
    /\ req = NoReq
    /\ resp = NoResp

NextDelete == UpsertAsset \/ DeleteAsset

SpecDelete == InitDelete /\ [][NextDelete]_vars

\* C19: a delete request for an existing asset without hard_delete keeps the
\* row and changes nothing but its status, which becomes retired; with
\* hard_delete=true the asset's row is gone afterwards and so are all of its
\* management-controller rows.
C19_DeleteLifecycle ==
    [][ (resp'.kind = "http" /\ resp'.route = "delete_asset" /\ resp'.id \in Ids(assets)) =>
          IF resp'.hard_delete
          THEN /\ \A i \in Ids(assets') : assets'[i].id # resp'.id
               /\ \A c \in DOMAIN controllers' :
                      controllers'[c].alive => controllers'[c].asset_id # resp'.id
          ELSE /\ assets' = [assets EXCEPT ![resp'.id].status = "retired"]
               /\ controllers' = controllers ]_vars

-----------------------------------------------------------------------------
(* Claims about a misconfigured integration (SpecSvc) *)

\* the integration is switched on but the connect host or the API token is unset
Misconfigured == cfg.enabled /\ (~cfg.host \/ ~cfg.token)

-----------------------------------------------------------------------------
(* _make_json_safe (app/routers/assets.py, app/routers/mgmt.py)             *)
(*                                                                          *)
(* A Python value is a record whose field k is its type: a dict carries    *)
(* `items`, the function from keys to values, a list carries `elems`, the   *)
(* sequence of its members, and anything else carries v, the text str()     *)
(* (for a datetime isoformat()) yields.                                     *)

\* longest list drawn inside an audit payload
MaxList == 2

\* _make_json_safe of module `module` ("assets" or "mgmt"): dicts and lists
\* are rebuilt item by item, a UUID and anything with an attribute `hex`
\* (float and bytes have one) becomes str(obj); mgmt.py also turns anything
\* with `isoformat` into its ISO string; the rest is returned as it is
RECURSIVE _make_json_safe(_, _)
_make_json_safe(module, obj) ==
    CASE obj.k = "dict" ->
            [k |-> "dict", items |-> [key \in DOMAIN obj.items |-> _make_json_safe(module, obj.items[key])]]
      [] obj.k = "list" ->
            [k |-> "list", elems |-> [i \in DOMAIN obj.elems |-> _make_json_safe(module, obj.elems[i])]]
      [] obj.k = "UUID" -> [k |-> "str", v |-> obj.v]
      [] obj.k \in {"float", "bytes"} -> [k |-> "str", v |-> obj.v]
      [] obj.k = "datetime" /\ module = "mgmt" -> [k |-> "str", v |-> obj.v]
      [] OTHER -> obj

\* The dicts the routes hand to _make_json_safe.  assets.py: the dump of the
\* inbound asset, of which `specs` (Dict[str, Any], parsed from the JSON body:
\* strings, numbers, null, lists, dicts), primary_owner_id (UUID or None) and
\* application_ids (a list of UUID) vary.  mgmt.py: the dump of the inbound
\* controller (strings, an int port, None).
AuditPayloads(module) ==
    IF module = "mgmt"
    THEN { [k |-> "dict", items |-> [type |-> [k |-> "str", v |-> "idrac"],
                                 port |-> [k |-> "int", v |-> p],
                                 ui_url |-> u]] :
             p \in {"443", "8443"}, u \in {[k |-> "NoneType", v |-> "None"],
                                           [k |-> "str", v |-> "ui"]} }
    ELSE LET Json == { [k |-> "str", v |-> "x"], [k |-> "int", v |-> "16"],
                       [k |-> "float", v |-> "2.4"], [k |-> "NoneType", v |-> "None"] }
             Lists == { [k |-> "list", elems |-> s] :
                          s \in UNION {[1..n -> Json] : n \in 0..MaxList} }
             Specs == { [k |-> "dict", items |-> [cpu |-> x]] : x \in Json \cup Lists }
                      \cup { [k |-> "dict", items |-> [cpu |-> [k |-> "dict", items |-> [ghz |-> x]]]] :
                               x \in Json }
         IN { [k |-> "dict", items |-> [specs |-> s, primary_owner_id |-> o,
                                    application_ids |-> [k |-> "list", elems |-> a]]] :
                s \in Specs,
                o \in {[k |-> "NoneType", v |-> "None"], [k |-> "UUID", v |-> "u-1"]},
                a \in {<<>>, <<[k |-> "UUID", v |-> "a-1"]>>} }

\* SpecJson: _make_json_safe applied to the payloads of both modules
InitJson ==
    /\ assets = <<>>
    /\ last = NoCall
    /\ ServiceUnused
    /\ \E module \in {"assets", "mgmt"} : \E obj \in AuditPayloads(module) :
           build = [module |-> module, obj |-> obj, out |-> NotBuilt]

MakeJsonSafe ==
    /\ build.out = NotBuilt
    /\ build' = [build EXCEPT !.out = _make_json_safe(build.module, build.obj)]
    /\ UNCHANGED <<assets, last, svcVars, dbVars, req, resp>>

NextJson == MakeJsonSafe

SpecJson == InitJson /\ [][NextJson]_vars

\* what the claim says the payload becomes: a UUID and a timestamp are
\* replaced by their string forms at every depth, everything else is kept
RECURSIVE ClaimedJsonSafe(_)
ClaimedJsonSafe(obj) ==
    CASE obj.k = "dict" -> [k |-> "dict", items |-> [key \in DOMAIN obj.items |-> ClaimedJsonSafe(obj.items[key])]]
      [] obj.k = "list" -> [k |-> "list", elems |-> [i \in DOMAIN obj.elems |-> ClaimedJsonSafe(obj.elems[i])]]
      [] obj.k \in {"UUID", "datetime"} -> [k |-> "str", v |-> obj.v]
      [] OTHER -> obj

\* C21: every change payload the asset and management-controller routes hand
\* to the audit log is JSON-safe at every depth of dicts and lists - no raw
\* UUID, no raw timestamp, only their string forms - and every value that is
\* neither is passed through unchanged.
C21_AuditPayloadJsonSafe ==
    build.out # NotBuilt => build.out = ClaimedJsonSafe(build.obj)


-----------------------------------------------------------------------------
(* Vault response handling (SpecSvc) *)

\* the call has sent a PUT or a POST
WriteSent ==
    \E n \in DOMAIN http :
        http[n] \in {"PUT /v1/vaults/{v}/items/{id}", "POST /v1/vaults/{v}/items"}

\* C22: the create (POST) and the update (PUT) succeed exactly on status 200
\* or 201, the delete exactly on 204; on any other status the operation
\* raises OnePasswordError and returns no id / no True; a vault lookup or a
\* search that fails ends the sync in OnePasswordError before any POST or
\* PUT is issued.
C22_VaultResponseHandling ==
    [][ /\ (svc.pc = "write" /\ svc'.pc = "ret") =>
              /\ svc'.ret.ok <=> svc'.status \in {"200", "201"}
              /\ svc'.ret.ok => svc'.ret.val \in ItemIdsOf(vault')
              /\ ~svc'.ret.ok => svc'.ret = Raised
        /\ (svc.pc = "delete" /\ svc'.pc = "ret") =>
              /\ svc'.ret.ok <=> svc'.status = "204"
              /\ svc'.ret.ok => svc'.ret.val = TRUE
              /\ ~svc'.ret.ok => svc'.ret = Raised
        /\ (svc.pc \in {"vaults", "find"} /\ svc.op = "sync" /\ svc'.pc \notin {"find", "write"}) =>
              /\ svc'.pc = "ret" /\ svc'.ret = Raised
              /\ ~WriteSent'
              /\ vault' = vault
        /\ (svc.pc \in {"vaults", "find"} /\ svc.op = "sync" /\ svc'.status # "200") =>
              svc'.pc = "ret"
      ]_vars

\* a delete answered 204 has returned True, and the sync after it has sent
\* its write, was answered 204 and has raised
C22_Witness ==
    /\ resp.kind = "script" /\ resp.op = "delete" /\ resp.ok
    /\ svc.pc = "ret" /\ svc.op = "sync"
    /\ svc.status = "204" /\ svc.ret = Raised /\ WriteSent


-----------------------------------------------------------------------------
(* Credentials across a controller change (Spec) *)

\* the five credential values an item stores
StoredCredentials(data) ==
    << data.mgmt_username, data.mgmt_password,
       data.os_username, data.os_password, data.os_ssh_key >>

\* C23: adding a management controller to an asset that has a vault secret
\* leaves the secret's mgmt username/password and OS username/password/ssh key
\* as they were stored (read back and passed as overrides, never the new
\* controller type's defaults), and a sync that succeeds has rewritten the
\* secret's type/address/port/URL with the new controller's.
C23_AddControllerPreservesCredentials ==
    [][ (svc.pc \notin {"idle", "ret"} /\ svc.caller = "add_management_controller") =>
          \A it \in vault : it.id = assets[req.asset_id].onepassword_secret_id =>
              \E jt \in vault' :
                  /\ jt.id = it.id
                  /\ StoredCredentials(jt.data) = StoredCredentials(it.data)
                  /\ (svc.pc = "write" /\ svc'.ret.ok) =>
                        /\ jt.data.mgmt_type = controllers[req.id].type
                        /\ jt.data.mgmt_address = controllers[req.id].address
                        /\ jt.data.mgmt_port = PortStr(controllers[req.id].port)
                        /\ jt.data.mgmt_ui_url = _build_management_url(controllers[req.id])
      ]_vars

\* an iDRAC controller has been added to asset 1 and the sync succeeded: the
\* secret names the controller and still holds the OS account an upsert had
\* stored and the management account it held before, not iDRAC's default root
C23_Witness ==
    /\ resp.kind = "http" /\ resp.route = "add_management_controller" /\ resp.vault = "ok"
    /\ \E it \in vault :
        /\ it.id = assets[1].onepassword_secret_id
        /\ it.data.mgmt_type = "idrac"
        /\ it.data.mgmt_username = S_admin /\ mgmt_defaults("idrac").username # S_admin
        /\ it.data.os_username = <<"u">>


-----------------------------------------------------------------------------
(* More claims about CRUDAsset.upsert (SpecUpsert) *)

\* C24: when the payload has an FQDN no stored asset has, upsert falls through
\* to the serial+vendor lookup and then the hostname lookup; if either matches,
\* that asset is updated, its FQDN becomes the inbound one and created=false
\* is returned; a row is created only when all three lookups miss.
C24_UnknownFqdnFallsThrough ==
    [][ (/\ last'.kind = "upsert"
         /\ TruthyAtom(last'.payload.fqdn)
         /\ get_by_fqdn(assets, last'.payload.fqdn) = {}) =>
          LET p == last'.payload
              bySV == IF TruthyAtom(p.serial_number) /\ TruthyAtom(p.vendor)
                      THEN get_by_serial_and_vendor(assets, p.serial_number, p.vendor)
                      ELSE {}
              byH == get_by_hostname(assets, p.hostname)
              found == IF bySV # {} THEN bySV ELSE byH
          IN /\ ~last'.err
             /\ assets'[last'.id].fqdn = p.fqdn
             /\ IF found # {}
                THEN /\ ~last'.created
                     /\ last'.id \in found
                     /\ Len(assets') = Len(assets)
                ELSE /\ last'.created
                     /\ Len(assets') = Len(assets) + 1
      ]_vars

\* with two rows stored, an upsert carrying f1 found no row by FQDN, matched
\* by hostname and updated that row, now the one row with fqdn f1
C24_Witness ==
    /\ last.kind = "upsert" /\ last.payload.fqdn = "f1"
    /\ last.level = "hostname" /\ ~last.created /\ ~last.err
    /\ Len(assets) = 2
    /\ get_by_fqdn(assets, "f1") = {last.id}


\* the item holds credentials other than the placeholders root / changeme
HoldsCustomCredentials(data) ==
    \/ data.os_username # S_root
    \/ data.os_password # S_changeme
    \/ data.mgmt_password # S_changeme

\* C25: once the asset's vault secret holds custom credentials, a resync that
\* supplies no overrides - an upsert without mgmt_credentials/os_credentials,
\* a management-controller update or delete - leaves the stored credential
\* values unchanged.
C25_ResyncPreservesCredentials ==
    [][ (/\ svc.pc = "write"
         /\ svc.caller \in {"upsert_asset", "update_management_controller",
                            "delete_management_controller"}
         /\ svc.mc = NoneCreds /\ svc.oc = NoneCreds) =>
          \A it \in ItemsTitled(vault, SecretName(svc.asset.id)) :
              HoldsCustomCredentials(it.data) =>
                  \E jt \in vault' :
                      /\ jt.id = it.id
                      /\ StoredCredentials(jt.data) = StoredCredentials(it.data)
      ]_vars


-----------------------------------------------------------------------------
(* More claims about _build_secret_data (SpecBuild) *)

\* neither empty nor made of whitespace
NonBlank(str) == str # <<>> /\ Strip(str) # <<>>

\* C26: in every item payload the service builds, for any asset, controller
\* and override inputs, mgmt_username, mgmt_password, os_username and
\* os_password are non-empty strings: no sync can write a blank username or
\* password into the vault.
C26_NoBlankCredentials ==
    build.out # NotBuilt =>
        /\ NonBlank(build.out.mgmt_username)
        /\ NonBlank(build.out.mgmt_password)
        /\ NonBlank(build.out.os_username)
        /\ NonBlank(build.out.os_password)

\* a payload built for a controller from a whitespace-only management
\* password: the field holds the default
C26_Witness ==
    /\ build.out # NotBuilt
    /\ HasCtrl(build.ctrl)
    /\ ~IsNoneCreds(build.mgmt)
    /\ "password" \in DOMAIN build.mgmt[1]
    /\ build.mgmt[1]["password"] # <<>>
    /\ Strip(build.mgmt[1]["password"]) = <<>>
    /\ build.out.mgmt_password = S_changeme


-----------------------------------------------------------------------------
(* SpecRace: create_or_update_asset_secret called by several requests at    *)
(* once.  The service is a coroutine: at each `await client.get/put/post`   *)
(* the event loop may run another request's call.  svc is the call being    *)
(* advanced, req the bag of calls suspended at a request, each with its     *)
(* request log.                                                             *)

\* a request reaches its `await op_service.create_or_update_asset_secret(...)`
\* for asset 1 while fewer than MaxWorkers calls are suspended
StartSync ==
    /\ svc.pc = "idle"
    /\ BagCardinality(req) < MaxWorkers
    /\ \E c \in FirstController(controllers, 1) :
          svc' = Enter(SyncCall("script", assets[1], c, NoneCreds, NoneCreds))
    /\ http' = <<>>
    /\ UNCHANGED <<build, assets, last, cfg, vault, vaultSeq, dbVars, req, resp>>

\* the call is suspended at the request it is about to await
Await ==
    /\ svc.pc \in {"vaults", "find", "write"}
    /\ req' = req (+) SetToBag({[call |-> svc, http |-> http]})
    /\ svc' = NoSvc
    /\ http' = <<>>
    /\ UNCHANGED <<build, assets, last, cfg, vault, vaultSeq, dbVars, resp>>

\* the event loop resumes a suspended call
Resume ==
    /\ svc.pc = "idle"
    /\ \E t \in BagToSet(req) :
        /\ svc' = t.call
        /\ http' = t.http
        /\ req' = req (-) SetToBag({t})
    /\ UNCHANGED <<build, assets, last, cfg, vault, vaultSeq, dbVars, resp>>

InitRace ==
    /\ build = [out |-> NotBuilt]
    /\ last = NoCall
    /\ assets = SampleAssets
    /\ controllers = SampleControllers
    /\ audit = <<>>
    /\ cfg = Configured
    /\ vault = {}
    /\ vaultSeq = 0
    /\ svc = NoSvc
    /\ http = <<>>
    /\ req = EmptyBag
    /\ resp = NoResp

NextRace ==
    \/ StartSync \/ Await \/ Resume
    \/ GetVaultId \/ FindSecretByTitle \/ WriteSecret \/ ScriptReturn

SpecRace == InitRace /\ [][NextRace]_vars

\* C27: under every interleaving of concurrent create_or_update_asset_secret
\* calls for the same asset the vault never holds more than one item with
\* that asset's title.
C27_OneItemPerTitleUnderConcurrency ==
    Cardinality(ItemsTitled(vault, SecretName(1))) <= 1


\* C28: after any sequence of sequential upserts starting from an empty store
\* no two asset rows share a hostname and no two share a (serial_number,
\* vendor) pair, so each natural-key lookup of the matcher returns at most one
\* candidate.
C28_NaturalKeysUnique ==
    \A i, j \in Ids(assets) :
        i # j =>
            /\ assets[i].hostname # assets[j].hostname
            /\ (assets[i].serial_number # NONE /\ assets[i].vendor # NONE) =>
                  <<assets[i].serial_number, assets[i].vendor>>
                      # <<assets[j].serial_number, assets[j].vendor>>


-----------------------------------------------------------------------------
(* More claims about the routes (Spec) *)

\* C29: in every management-controller route (add, update, delete) the vault
\* is contacted only after the controller's relational change has been
\* committed: once a request of the route has gone out to the vault, the
\* added row is stored, the updated row holds the inbound fields, the deleted
\* row is gone.
C29_VaultAfterControllerCommit ==
    (req.pc \in {"get", "sync"} /\ http # <<>>) =>
        /\ req.route = "add_management_controller" => Controller(controllers, req.id)
        /\ req.route = "update_management_controller" =>
              /\ Controller(controllers, req.id)
              /\ controllers[req.id] = UpdatedController(controllers[req.id], req.payload)
        /\ req.route = "delete_management_controller" => ~Controller(controllers, req.id)


\* the step appended one audit row, for asset `id`, with action CREATE when
\* `created` and UPDATE otherwise
OneAuditRowAppended(id, created) ==
    /\ Len(audit') = Len(audit) + 1
    /\ SubSeq(audit', 1, Len(audit)) = audit
    /\ audit'[Len(audit')].resource_type = "asset"
    /\ audit'[Len(audit')].resource_id = id
    /\ audit'[Len(audit')].action = (IF created THEN "CREATE" ELSE "UPDATE")

\* C30: every successful upsert request appends exactly one audit-log entry
\* for the asset, with action CREATE if and only if the upsert created a row
\* and UPDATE otherwise; the entry is recorded before the vault sync is
\* attempted and is there whether the sync succeeds, fails or is disabled.
C30_OneAuditEntryPerUpsert ==
    [][ /\ (req.pc = "idle" /\ req'.pc = "sync" /\ req'.route = "upsert_asset") =>
              /\ OneAuditRowAppended(req'.id, req'.created)
              /\ http' = <<>> /\ vault' = vault
        /\ (/\ ~cfg.enabled /\ Quiet
            /\ resp'.kind = "http" /\ resp'.route = "upsert_asset" /\ resp'.status = 200) =>
              OneAuditRowAppended(resp'.id, resp'.created)
        /\ InUpsertSync =>
              /\ audit' = audit
              /\ req'.pc = "idle" =>
                    /\ resp'.status = 200 /\ resp'.id = req.id /\ resp'.created = req.created
                    /\ audit[Len(audit)].resource_id = req.id
                    /\ audit[Len(audit)].action = (IF req.created THEN "CREATE" ELSE "UPDATE")
      ]_vars

\* an upsert that created asset 2 has returned after its sync failed: the
\* last audit row is the CREATE of asset 2, and the vault has no item for it
C30_Witness ==
    /\ resp.kind = "http" /\ resp.route = "upsert_asset"
    /\ resp.status = 200 /\ resp.created /\ resp.vault = "failed" /\ resp.id = 2
    /\ req.pc = "idle"
    /\ audit[Len(audit)] = [action |-> "CREATE", resource_type |-> "asset",
                            resource_id |-> 2, changes |-> UpsertAuditKeys]
    /\ ItemsTitled(vault, SecretName(2)) = {}

====
